---- MODULE Spec2Model ----
(***************************************************************************)
(* The persistence-and-progress core of the 50 State License Plate Game:   *)
(* GameRepository and SpottedStateRepository over the embedded store, and  *)
(* GameService on top of them.                                             *)
(*                                                                         *)
(* The store is the two tables of DatabaseService.createTables:            *)
(*   games          a set of rows keyed by id (id TEXT PRIMARY KEY)        *)
(*   spotted_states a sequence of rows in insertion order, which is the    *)
(*                  order of spottedAt; a row is (gameId, stateCode); its  *)
(*                  id and spottedAt columns are never read by the code    *)
(*                  modelled here and are left out                         *)
(* UNIQUE(gameId, stateCode) is enforced by the store.  The FOREIGN KEY    *)
(* clause is not: no statement of the repository turns foreign_keys on, so *)
(* the engine's default (off) applies and a row may name a missing game.   *)
(*                                                                         *)
(* Below the repositories are DatabaseService (the connection),            *)
(* DatabaseMigrations (the ledger table migrations) and DatabaseManager;   *)
(* above GameService are GameCompletionService and the toggleStateSpotted  *)
(* of GameManagerProvider, whose calls interleave at their awaits.         *)
(***************************************************************************)
EXTENDS Integers, Sequences, FiniteSets, TLC

VARIABLES
    games,           \* table games
    spotted_states,  \* table spotted_states
    nextId,          \* source of generateId() and of the creation clock
    last,            \* the last call that returned: operation, argument, outcome
    del,             \* position of the deleteGame call in progress (SpecDelete)
    store,           \* DatabaseService, DatabaseManager and the migrations ledger
    calls,           \* the calls in progress of the specifications that run calls await by await
    activeGame,      \* GameManagerState.activeGame of GameManagerProvider
    currentGame,     \* currentGame of GameProvider
    allGames         \* allGames of GameProvider

vars == <<games, spotted_states, nextId, last, del, store, calls,
          activeGame, currentGame, allGames>>

----------------------------------------------------------------------------
(* Bounds of the model *)

\* how many games are ever created
MaxGames == 2
\* how many rows the repository-level calls of SpecRepo add to spotted_states
MaxRows == 2
\* the actions toggle the last TopCodes state codes of the reference set; the
\* persisted store found at start-up may hold one game with all the others spotted
TopCodes == 1
\* how many migrations getMigrations() lists: version 1 of the source and
\* the later versions its comment provides for
MaxMigrations == 2
\* how many statements of runMigrations fail in one behaviour
MaxFaults == 2
\* how many toggleStateSpotted calls are in progress at a time
MaxCalls == 2

----------------------------------------------------------------------------
(* Values *)

\* JavaScript null, as returned by getGameById and getActiveGame
NULL == [null |-> TRUE]

\* the 50-entry reference set of utils/constants, by position
US_STATES == 1..50

\* a state code outside the reference set
InvalidCodes == {0}

\* strings are sequences of characters
Blank == " "

RECURSIVE TrimStart(_)
TrimStart(s) == IF s # <<>> /\ Head(s) = Blank THEN TrimStart(Tail(s)) ELSE s

RECURSIVE TrimEnd(_)
TrimEnd(s) ==
    IF s # <<>> /\ s[Len(s)] = Blank THEN TrimEnd(SubSeq(s, 1, Len(s) - 1)) ELSE s

\* String.prototype.trim
trim(s) == TrimEnd(TrimStart(s))

\* a date argument: undefined, the empty string, a string Date cannot parse,
\* or a calendar date (its day number); SqlNull is the store's NULL
DateUndefined == [kind |-> "undefined", day |-> 0]
DateEmpty == [kind |-> "empty", day |-> 0]
DateGarbage == [kind |-> "garbage", day |-> 0]
DateOf(n) == [kind |-> "date", day |-> n]
SqlNull == [kind |-> "null", day |-> 0]

\* JavaScript truthiness of a date argument: a non-empty string
Truthy(d) == d.kind \in {"date", "garbage"}

\* new Date(d).getTime() is NaN for what Date cannot parse
IsNaNDate(d) == d.kind # "date"
getTime(d) == d.day

----------------------------------------------------------------------------
(* GameRepository *)

\* the parameter list of the INSERT: endDate || null, isComplete ? 1 : 0
GameToRow(game) ==
    [id |-> game.id,
     name |-> game.name,
     startDate |-> game.startDate,
     endDate |-> IF Truthy(game.endDate) THEN game.endDate ELSE SqlNull,
     startLocation |-> game.startLocation,
     destination |-> game.destination,
     isComplete |-> IF game.isComplete THEN 1 ELSE 0,
     createdAt |-> game.createdAt]

mapRowToGame(row) ==
    [id |-> row.id,
     name |-> row.name,
     startDate |-> row.startDate,
     endDate |-> row.endDate,
     startLocation |-> row.startLocation,
     destination |-> row.destination,
     isComplete |-> row.isComplete # 0,
     createdAt |-> row.createdAt]

\* createGame(gameData): id and createdAt are generated (id, now), the row is
\* inserted and the object built from gameData is returned
GameRepository_createGame(gs, id, now, gameData) ==
    LET game == [id |-> id,
                 createdAt |-> now,
                 name |-> gameData.name,
                 startDate |-> gameData.startDate,
                 endDate |-> gameData.endDate,
                 startLocation |-> gameData.startLocation,
                 destination |-> gameData.destination,
                 isComplete |-> gameData.isComplete]
    IN  [games |-> gs \cup {GameToRow(game)}, ret |-> game]

\* SELECT * FROM games WHERE id = ?
getGameById(gs, id) ==
    LET rows == {r \in gs : r.id = id}
    IN  IF rows = {} THEN NULL ELSE mapRowToGame(CHOOSE r \in rows : TRUE)

\* a getActiveGame that selects on the wrong flag value (WHERE isComplete = 1)
getActiveGame_WrongFlag(gs) ==
    LET rows == {r \in gs : r.isComplete = 1}
    IN  IF rows = {} THEN NULL
        ELSE mapRowToGame(CHOOSE r \in rows : \A q \in rows : q.createdAt <= r.createdAt)

\* SELECT * FROM games WHERE isComplete = 0 ORDER BY createdAt DESC LIMIT 1
getActiveGame(gs) ==
    LET rows == {r \in gs : r.isComplete = 0}
    IN  IF rows = {} THEN NULL
        ELSE mapRowToGame(CHOOSE r \in rows : \A q \in rows : q.createdAt <= r.createdAt)

\* UPDATE games SET isComplete = 1 WHERE id = ?
markGameComplete(gs, id) ==
    {IF r.id = id THEN [r EXCEPT !.isComplete = 1] ELSE r : r \in gs}

\* DELETE FROM games WHERE id = ?
GameRepository_deleteGame(gs, id) == {r \in gs : r.id # id}

----------------------------------------------------------------------------
(* SpottedStateRepository *)

\* a spotted_states table declared without UNIQUE(gameId, stateCode)
UniqueViolation_NoConstraint(ss, gameId, stateCode) == FALSE

\* the store's UNIQUE(gameId, stateCode) check on INSERT
UniqueViolation(ss, gameId, stateCode) ==
    \E i \in 1..Len(ss) : ss[i].gameId = gameId /\ ss[i].stateCode = stateCode

ErrAlreadySpotted == "State has already been spotted in this game"

\* addSpottedState: the INSERT; a UNIQUE constraint failure is rethrown as
\* the "already been spotted" error
addSpottedState(ss, gameId, stateCode) ==
    IF UniqueViolation(ss, gameId, stateCode)
    THEN [spotted |-> ss, err |-> ErrAlreadySpotted]
    ELSE [spotted |-> Append(ss, [gameId |-> gameId, stateCode |-> stateCode]),
          err |-> "none"]

\* a removeSpottedState whose DELETE leaves out the stateCode condition
removeSpottedState_WholeGame(ss, gameId, stateCode) ==
    LET Keep(r) == r.gameId # gameId
    IN  SelectSeq(ss, Keep)

\* DELETE FROM spotted_states WHERE gameId = ? AND stateCode = ?
removeSpottedState(ss, gameId, stateCode) ==
    LET Keep(r) == ~(r.gameId = gameId /\ r.stateCode = stateCode)
    IN  SelectSeq(ss, Keep)

\* SELECT * FROM spotted_states WHERE gameId = ? ORDER BY spottedAt ASC
getSpottedStatesForGame(ss, gameId) ==
    LET Mine(r) == r.gameId = gameId
    IN  SelectSeq(ss, Mine)

\* Math.round(num / den) for num >= 0, den > 0: halves round up
MathRound(num, den) == (2 * num + den) \div (2 * den)

\* total in getGameProgress
total == 50

\* a getGameProgress whose COUNT leaves out the gameId condition
getGameProgress_AllGames(ss, gameId) ==
    [found |-> Len(ss), total |-> total, percentage |-> MathRound(Len(ss) * 100, total)]

\* SELECT COUNT(*) as found FROM spotted_states WHERE gameId = ?
getGameProgress(ss, gameId) ==
    LET found == Len(getSpottedStatesForGame(ss, gameId))
    IN  [found |-> found, total |-> total, percentage |-> MathRound(found * 100, total)]

\* SELECT COUNT(*) as count ... WHERE gameId = ? AND stateCode = ?; count > 0
isStateSpotted(ss, gameId, stateCode) ==
    LET Hit(r) == r.gameId = gameId /\ r.stateCode = stateCode
    IN  Len(SelectSeq(ss, Hit)) > 0

\* toggleStateSpotted: remove if spotted (false), add if not (true)
SpottedStateRepository_toggleStateSpotted(ss, gameId, stateCode) ==
    IF isStateSpotted(ss, gameId, stateCode)
    THEN [spotted |-> removeSpottedState(ss, gameId, stateCode),
          err |-> "none", ret |-> FALSE]
    ELSE LET a == addSpottedState(ss, gameId, stateCode)
         IN  [spotted |-> a.spotted, err |-> a.err, ret |-> TRUE]

\* LIMIT 10 of the two ranking queries of getGameStatistics
StatisticsLimit == 10

\* GROUP BY stateCode: the codes that have a row, and COUNT(*) of each
SpottedCodes(ss) == {ss[i].stateCode : i \in 1..Len(ss)}
CodeCount(ss, code) == Cardinality({i \in 1..Len(ss) : ss[i].stateCode = code})

\* every order in which the rows of a grouped query can come
Orderings(S) ==
    {f \in [1..Cardinality(S) -> S] : \A i, j \in 1..Cardinality(S) : i # j => f[i] # f[j]}

FirstRows(f, n) == SubSeq(f, 1, IF Len(f) < n THEN Len(f) ELSE n)

\* ORDER BY count DESC LIMIT 10: the order of rows with equal count is not
\* specified by the statement, so every order that is descending in count
\* is a possible result
MostSpottedResults(ss) ==
    {FirstRows(f, StatisticsLimit) :
        f \in {g \in Orderings(SpottedCodes(ss)) :
                  \A i, j \in 1..Len(g) :
                      i < j => CodeCount(ss, g[i]) >= CodeCount(ss, g[j])}}

\* ORDER BY count ASC LIMIT 10, likewise
RarestResults(ss) ==
    {FirstRows(f, StatisticsLimit) :
        f \in {g \in Orderings(SpottedCodes(ss)) :
                  \A i, j \in 1..Len(g) :
                      i < j => CodeCount(ss, g[i]) <= CodeCount(ss, g[j])}}

\* getGameStatistics, given the rows the two ranking queries returned
getGameStatistics(gs, ss, most, rarest) ==
    [totalGames |-> Cardinality(gs),
     completedGames |-> Cardinality({r \in gs : r.isComplete = 1}),
     totalStatesSpotted |-> Len(ss),
     mostSpottedStates |-> [i \in 1..Len(most) |->
                               [stateCode |-> most[i], count |-> CodeCount(ss, most[i])]],
     rarestStates |-> [i \in 1..Len(rarest) |->
                          [stateCode |-> rarest[i], count |-> CodeCount(ss, rarest[i])]]]

----------------------------------------------------------------------------
(* GameService *)

ErrActiveGame == "There is already an active game"
ErrGameNotFound == "Game not found"
ErrInvalidStateCode == "Invalid state code"
ErrCompletedGame == "Cannot modify states in a completed game"
ErrAlreadyComplete == "Game is already complete"

\* the checks of createGame made before any repository call, in the code's
\* order; "none" when the data passes them all
CreateGameValidation(gameData) ==
    IF trim(gameData.name) = <<>> THEN "Game name is required"
    ELSE IF ~Truthy(gameData.startDate) THEN "Start date is required"
    ELSE IF trim(gameData.startLocation) = <<>> THEN "Start location is required"
    ELSE IF trim(gameData.destination) = <<>> THEN "Destination is required"
    ELSE IF IsNaNDate(gameData.startDate) THEN "Invalid start date format"
    ELSE IF Truthy(gameData.endDate) /\ IsNaNDate(gameData.endDate)
         THEN "Invalid end date format"
    ELSE IF Truthy(gameData.endDate)
            /\ getTime(gameData.endDate) <= getTime(gameData.startDate)
         THEN "End date must be after start date"
    ELSE "none"

\* a createGame that completes the active game instead of refusing
GameService_createGame_Replace(gs, id, now, gameData) ==
    LET v == CreateGameValidation(gameData)
        active == getActiveGame(gs)
        kept == IF active = NULL THEN gs ELSE markGameComplete(gs, active.id)
    IN  IF v # "none" THEN [games |-> gs, err |-> v, ret |-> NULL]
        ELSE LET c == GameRepository_createGame(kept, id, now,
                          [name |-> trim(gameData.name),
                           startDate |-> gameData.startDate,
                           endDate |-> gameData.endDate,
                           startLocation |-> trim(gameData.startLocation),
                           destination |-> trim(gameData.destination),
                           isComplete |-> FALSE])
             IN  [games |-> c.games, err |-> "none", ret |-> c.ret]

\* validateGameData: the same checks, collected instead of thrown; the end
\* date is compared with the start date only when both parse (a comparison
\* with NaN is false)
validateGameData(gameData) ==
    LET errors ==
            (IF trim(gameData.name) = <<>> THEN <<"Game name is required">> ELSE <<>>)
         \o (IF ~Truthy(gameData.startDate) THEN <<"Start date is required">>
             ELSE IF IsNaNDate(gameData.startDate) THEN <<"Invalid start date format">>
             ELSE <<>>)
         \o (IF ~Truthy(gameData.endDate) THEN <<>>
             ELSE IF IsNaNDate(gameData.endDate) THEN <<"Invalid end date format">>
             ELSE IF Truthy(gameData.startDate) /\ ~IsNaNDate(gameData.startDate)
                     /\ getTime(gameData.endDate) <= getTime(gameData.startDate)
             THEN <<"End date must be after start date">>
             ELSE <<>>)
         \o (IF trim(gameData.startLocation) = <<>>
             THEN <<"Start location is required">> ELSE <<>>)
         \o (IF trim(gameData.destination) = <<>>
             THEN <<"Destination is required">> ELSE <<>>)
    IN  [isValid |-> Len(errors) = 0, errors |-> errors]

\* a createGame that checks for an active game before it validates
GameService_createGame_ActiveFirst(gs, id, now, gameData) ==
    LET v == CreateGameValidation(gameData) IN
    IF getActiveGame(gs) # NULL THEN [games |-> gs, err |-> ErrActiveGame, ret |-> NULL]
    ELSE IF v # "none" THEN [games |-> gs, err |-> v, ret |-> NULL]
    ELSE LET c == GameRepository_createGame(gs, id, now,
                      [name |-> trim(gameData.name),
                       startDate |-> gameData.startDate,
                       endDate |-> gameData.endDate,
                       startLocation |-> trim(gameData.startLocation),
                       destination |-> trim(gameData.destination),
                       isComplete |-> FALSE])
         IN  [games |-> c.games, err |-> "none", ret |-> c.ret]

\* createGame: validation, then the active-game check, then the insert of
\* the trimmed data with isComplete false
GameService_createGame(gs, id, now, gameData) ==
    LET v == CreateGameValidation(gameData) IN
    IF v # "none" THEN [games |-> gs, err |-> v, ret |-> NULL]
    ELSE IF getActiveGame(gs) # NULL THEN [games |-> gs, err |-> ErrActiveGame, ret |-> NULL]
    ELSE LET c == GameRepository_createGame(gs, id, now,
                      [name |-> trim(gameData.name),
                       startDate |-> gameData.startDate,
                       endDate |-> gameData.endDate,
                       startLocation |-> trim(gameData.startLocation),
                       destination |-> trim(gameData.destination),
                       isComplete |-> FALSE])
         IN  [games |-> c.games, err |-> "none", ret |-> c.ret]

\* the stateList of getGameState: one entry per reference state
StateList(spottedStates) ==
    [code \in US_STATES |->
        [code |-> code,
         isSpotted |-> \E i \in 1..Len(spottedStates) : spottedStates[i].stateCode = code]]

\* a getGameState that lists the spotted states of every game
getGameState_Unfiltered(gs, ss, gameId) ==
    LET game == getGameById(gs, gameId) IN
    IF game = NULL THEN [err |-> ErrGameNotFound]
    ELSE [err |-> "none",
          game |-> game,
          progress |-> getGameProgress(ss, gameId),
          spottedStates |-> ss,
          stateList |-> StateList(ss)]

\* getGameState
getGameState(gs, ss, gameId) ==
    LET game == getGameById(gs, gameId) IN
    IF game = NULL THEN [err |-> ErrGameNotFound]
    ELSE LET spottedStates == getSpottedStatesForGame(ss, gameId)
         IN  [err |-> "none",
              game |-> game,
              progress |-> getGameProgress(ss, gameId),
              spottedStates |-> spottedStates,
              stateList |-> StateList(spottedStates)]

\* a toggleStateSpotted that never marks the game complete
GameService_toggleStateSpotted_NoAutoComplete(gs, ss, gameId, stateCode) ==
    LET game == getGameById(gs, gameId) IN
    IF stateCode \notin US_STATES
    THEN [games |-> gs, spotted |-> ss, err |-> ErrInvalidStateCode, ret |-> FALSE]
    ELSE IF game = NULL
    THEN [games |-> gs, spotted |-> ss, err |-> ErrGameNotFound, ret |-> FALSE]
    ELSE IF game.isComplete
    THEN [games |-> gs, spotted |-> ss, err |-> ErrCompletedGame, ret |-> FALSE]
    ELSE LET t == SpottedStateRepository_toggleStateSpotted(ss, gameId, stateCode)
         IN  [games |-> gs, spotted |-> t.spotted, err |-> t.err,
              ret |-> IF t.err = "none" THEN t.ret ELSE FALSE]

\* a toggleStateSpotted without the check of game.isComplete
GameService_toggleStateSpotted_NoCompleteCheck(gs, ss, gameId, stateCode) ==
    LET game == getGameById(gs, gameId) IN
    IF stateCode \notin US_STATES
    THEN [games |-> gs, spotted |-> ss, err |-> ErrInvalidStateCode, ret |-> FALSE]
    ELSE IF game = NULL
    THEN [games |-> gs, spotted |-> ss, err |-> ErrGameNotFound, ret |-> FALSE]
    ELSE LET t == SpottedStateRepository_toggleStateSpotted(ss, gameId, stateCode)
             progress == getGameProgress(t.spotted, gameId)
         IN  IF t.err # "none"
             THEN [games |-> gs, spotted |-> t.spotted, err |-> t.err, ret |-> FALSE]
             ELSE [games |-> IF progress.found = progress.total /\ ~game.isComplete
                             THEN markGameComplete(gs, gameId) ELSE gs,
                   spotted |-> t.spotted, err |-> "none", ret |-> t.ret]

\* a toggleStateSpotted that looks the game up before it validates the state code
GameService_toggleStateSpotted_GameFirst(gs, ss, gameId, stateCode) ==
    LET game == getGameById(gs, gameId) IN
    IF game = NULL
    THEN [games |-> gs, spotted |-> ss, err |-> ErrGameNotFound, ret |-> FALSE]
    ELSE IF game.isComplete
    THEN [games |-> gs, spotted |-> ss, err |-> ErrCompletedGame, ret |-> FALSE]
    ELSE IF stateCode \notin US_STATES
    THEN [games |-> gs, spotted |-> ss, err |-> ErrInvalidStateCode, ret |-> FALSE]
    ELSE LET t == SpottedStateRepository_toggleStateSpotted(ss, gameId, stateCode)
             progress == getGameProgress(t.spotted, gameId)
         IN  IF t.err # "none"
             THEN [games |-> gs, spotted |-> t.spotted, err |-> t.err, ret |-> FALSE]
             ELSE [games |-> IF progress.found = progress.total /\ ~game.isComplete
                             THEN markGameComplete(gs, gameId) ELSE gs,
                   spotted |-> t.spotted, err |-> "none", ret |-> t.ret]

\* a toggleStateSpotted that reads the progress before it adds or removes
GameService_toggleStateSpotted_StaleProgress(gs, ss, gameId, stateCode) ==
    LET game == getGameById(gs, gameId) IN
    IF stateCode \notin US_STATES
    THEN [games |-> gs, spotted |-> ss, err |-> ErrInvalidStateCode, ret |-> FALSE]
    ELSE IF game = NULL
    THEN [games |-> gs, spotted |-> ss, err |-> ErrGameNotFound, ret |-> FALSE]
    ELSE IF game.isComplete
    THEN [games |-> gs, spotted |-> ss, err |-> ErrCompletedGame, ret |-> FALSE]
    ELSE LET t == SpottedStateRepository_toggleStateSpotted(ss, gameId, stateCode)
             progress == getGameProgress(ss, gameId)
         IN  IF t.err # "none"
             THEN [games |-> gs, spotted |-> t.spotted, err |-> t.err, ret |-> FALSE]
             ELSE [games |-> IF progress.found = progress.total /\ ~game.isComplete
                             THEN markGameComplete(gs, gameId) ELSE gs,
                   spotted |-> t.spotted, err |-> "none", ret |-> t.ret]

\* toggleStateSpotted
GameService_toggleStateSpotted(gs, ss, gameId, stateCode) ==
    LET game == getGameById(gs, gameId) IN
    IF stateCode \notin US_STATES
    THEN [games |-> gs, spotted |-> ss, err |-> ErrInvalidStateCode, ret |-> FALSE]
    ELSE IF game = NULL
    THEN [games |-> gs, spotted |-> ss, err |-> ErrGameNotFound, ret |-> FALSE]
    ELSE IF game.isComplete
    THEN [games |-> gs, spotted |-> ss, err |-> ErrCompletedGame, ret |-> FALSE]
    ELSE LET t == SpottedStateRepository_toggleStateSpotted(ss, gameId, stateCode)
             progress == getGameProgress(t.spotted, gameId)
         IN  IF t.err # "none"
             THEN [games |-> gs, spotted |-> t.spotted, err |-> t.err, ret |-> FALSE]
             ELSE [games |-> IF progress.found = progress.total /\ ~game.isComplete
                             THEN markGameComplete(gs, gameId) ELSE gs,
                   spotted |-> t.spotted, err |-> "none", ret |-> t.ret]

\* completeGame
GameService_completeGame(gs, gameId) ==
    LET game == getGameById(gs, gameId) IN
    IF game = NULL THEN [games |-> gs, err |-> ErrGameNotFound]
    ELSE IF game.isComplete THEN [games |-> gs, err |-> ErrAlreadyComplete]
    ELSE [games |-> markGameComplete(gs, gameId), err |-> "none"]

\* the loop of deleteGame: one removeSpottedState per listed row, in order
RECURSIVE RemoveAll(_, _, _)
RemoveAll(ss, gameId, list) ==
    IF list = <<>> THEN ss
    ELSE RemoveAll(removeSpottedState(ss, gameId, Head(list).stateCode), gameId, Tail(list))

\* a deleteGame that leaves the spotted states to ON DELETE CASCADE
GameService_deleteGame_GameOnly(gs, ss, gameId) ==
    IF getGameById(gs, gameId) = NULL
    THEN [games |-> gs, spotted |-> ss, err |-> ErrGameNotFound]
    ELSE [games |-> GameRepository_deleteGame(gs, gameId), spotted |-> ss, err |-> "none"]

\* deleteGame run to its end: the spotted states first, then the game
GameService_deleteGame(gs, ss, gameId) ==
    IF getGameById(gs, gameId) = NULL
    THEN [games |-> gs, spotted |-> ss, err |-> ErrGameNotFound]
    ELSE [games |-> GameRepository_deleteGame(gs, gameId),
          spotted |-> RemoveAll(ss, gameId, getSpottedStatesForGame(ss, gameId)),
          err |-> "none"]

----------------------------------------------------------------------------
(* GameCompletionService *)

ErrNotReady == "Game is not ready for completion"

\* an achievement level with no default for partial completions
getAchievementLevel_NoDefault(statesFound) ==
    IF statesFound >= 50 THEN "gold"
    ELSE IF statesFound >= 40 THEN "silver"
    ELSE IF statesFound >= 25 THEN "bronze"
    ELSE "none"

\* getAchievementLevel
getAchievementLevel(statesFound) ==
    IF statesFound >= 50 THEN "gold"
    ELSE IF statesFound >= 40 THEN "silver"
    ELSE IF statesFound >= 25 THEN "bronze"
    ELSE "bronze"

\* GameCompletionService.completeGame: the two checks on the game state,
\* GameService.completeGame, and the completion event (its times left out)
GameCompletionService_completeGame(gs, ss, gameId) ==
    LET gameState == getGameState(gs, ss, gameId) IN
    IF gameState.err # "none" THEN [games |-> gs, err |-> gameState.err, ret |-> NULL]
    ELSE IF gameState.game.isComplete
    THEN [games |-> gs, err |-> ErrAlreadyComplete, ret |-> NULL]
    ELSE IF gameState.progress.found # gameState.progress.total
    THEN [games |-> gs, err |-> ErrNotReady, ret |-> NULL]
    ELSE LET c == GameService_completeGame(gs, gameId) IN
         IF c.err # "none" THEN [games |-> c.games, err |-> c.err, ret |-> NULL]
         ELSE [games |-> c.games, err |-> "none",
               ret |-> [gameId |-> gameState.game.id,
                        gameName |-> gameState.game.name,
                        totalStates |-> gameState.progress.total,
                        spottedStates |-> {code \in US_STATES :
                                              gameState.stateList[code].isSpotted},
                        achievementLevel |->
                            getAchievementLevel(gameState.progress.found)]]

\* a checkAndHandleCompletion that does not look at game.isComplete
checkAndHandleCompletion_NoCompleteCheck(gs, ss, gameId) ==
    LET gameState == getGameState(gs, ss, gameId) IN
    IF gameState.err # "none" THEN [games |-> gs, err |-> gameState.err, ret |-> NULL]
    ELSE IF gameState.progress.found = gameState.progress.total
    THEN GameCompletionService_completeGame(gs, ss, gameId)
    ELSE [games |-> gs, err |-> "none", ret |-> NULL]

\* checkAndHandleCompletion: completeGame when the progress is full and the
\* game is not complete, null otherwise
checkAndHandleCompletion(gs, ss, gameId) ==
    LET gameState == getGameState(gs, ss, gameId) IN
    IF gameState.err # "none" THEN [games |-> gs, err |-> gameState.err, ret |-> NULL]
    ELSE IF gameState.progress.found = gameState.progress.total
            /\ ~gameState.game.isComplete
    THEN GameCompletionService_completeGame(gs, ss, gameId)
    ELSE [games |-> gs, err |-> "none", ret |-> NULL]

\* getAllGamesWithProgress, kept to the completed games: the game state of
\* each (getCompletionStats filters on game.isComplete)
CompletedGameStates(gs, ss) ==
    {getGameState(gs, ss, r.id) : r \in {q \in gs : mapRowToGame(q).isComplete}}

\* achievementCounts of getCompletionStats: every completed game is counted
\* once, under the level of its number of states found
achievementCounts(gs, ss) ==
    [level \in {"bronze", "silver", "gold"} |->
        Cardinality({g \in CompletedGameStates(gs, ss) :
                        getAchievementLevel(g.progress.found) = level})]

\* Math.min((n / goal) * 100, 100) for the goals 5 and 10, which divide 100
GoalProgress(n, goal) ==
    IF n * (100 \div goal) < 100 THEN n * (100 \div goal) ELSE 100

\* checkMilestones: the six milestones, by name; completedGames is
\* SELECT COUNT(*) FROM games WHERE isComplete = 1
checkMilestones(gs, ss) ==
    LET counts == achievementCounts(gs, ss)
        completedGames == Cardinality({r \in gs : r.isComplete = 1})
        Tier(level) == [achieved |-> counts[level] > 0,
                        progress |-> IF counts[level] > 0 THEN 100 ELSE 0]
    IN  [firstGame |-> [achieved |-> completedGames > 0,
                        progress |-> IF completedGames > 0 THEN 100 ELSE 0],
         bronze |-> Tier("bronze"),
         silver |-> Tier("silver"),
         gold |-> Tier("gold"),
         fiveGames |-> [achieved |-> completedGames >= 5,
                        progress |-> GoalProgress(completedGames, 5)],
         tenGames |-> [achieved |-> completedGames >= 10,
                       progress |-> GoalProgress(completedGames, 10)]]

----------------------------------------------------------------------------
(* GameManagerContext: the reducer's part that keeps activeGame *)

\* the GameState a getGameState call resolved to
GameStateOf(r) ==
    [game |-> r.game, progress |-> r.progress,
     spottedStates |-> r.spottedStates, stateList |-> r.stateList]

\* getActiveGameState: getActiveGame, then getGameState of its id; null
\* when no game is active
getActiveGameState(gs, ss) ==
    LET game == getActiveGame(gs) IN
    IF game = NULL THEN NULL ELSE GameStateOf(getGameState(gs, ss, game.id))

\* case TOGGLE_STATE: the flag of the state in stateList, a temp row
\* appended to spottedStates or the rows of the state filtered out, and the
\* progress recomputed from the length of the list
ReduceToggleState(ag, stateCode, isSpotted) ==
    IF ag = NULL THEN ag
    ELSE LET Other(r) == r.stateCode # stateCode
             updatedSpottedStates ==
                 IF isSpotted
                 THEN Append(ag.spottedStates,
                             [gameId |-> ag.game.id, stateCode |-> stateCode])
                 ELSE SelectSeq(ag.spottedStates, Other)
         IN  [game |-> ag.game,
              progress |-> [found |-> Len(updatedSpottedStates),
                            total |-> 50,
                            percentage |-> MathRound(Len(updatedSpottedStates) * 100, 50)],
              spottedStates |-> updatedSpottedStates,
              stateList |-> [code \in DOMAIN ag.stateList |->
                                IF ag.stateList[code].code = stateCode
                                THEN [ag.stateList[code] EXCEPT !.isSpotted = isSpotted]
                                ELSE ag.stateList[code]]]

\* case REFRESH_GAME_STATE: activeGame is the payload
ReduceRefreshGameState(ag, payload) == payload

----------------------------------------------------------------------------
(* The DatabaseService of services/DatabaseService (table games with       *)
(* is_active) behind GameProvider.  A Game is [id, name, createdAt,        *)
(* completedAt, isActive]; a row is [id, name, created_at, completed_at,   *)
(* is_active].  Times are positive clock values; 0 stands for a            *)
(* completedAt that is undefined and for a completed_at that is NULL.      *)

\* the row an INSERT or UPDATE writes for a game: completedAt || null,
\* isActive ? 1 : 0
LegacyGameToRow(game) ==
    [id |-> game.id, name |-> game.name, created_at |-> game.createdAt,
     completed_at |-> IF game.completedAt > 0 THEN game.completedAt ELSE 0,
     is_active |-> IF game.isActive THEN 1 ELSE 0]

\* the Game built from a row: isActive is row.is_active === 1
LegacyRowToGame(row) ==
    [id |-> row.id, name |-> row.name, createdAt |-> row.created_at,
     completedAt |-> row.completed_at, isActive |-> row.is_active = 1]

\* createGame: the id from the clock, the INSERT, and the game with its id
LegacyDb_createGame(gs, now, game) ==
    LET newGame == [id |-> now, name |-> game.name, createdAt |-> game.createdAt,
                    completedAt |-> game.completedAt, isActive |-> game.isActive]
    IN  [games |-> gs \cup {LegacyGameToRow(newGame)}, ret |-> newGame]

\* SELECT * FROM games ORDER BY created_at DESC
LegacyDb_getAllGames(gs) ==
    LET rows == CHOOSE f \in Orderings(gs) :
                    \A i, j \in 1..Len(f) : i < j => f[i].created_at > f[j].created_at
    IN  [i \in 1..Len(rows) |-> LegacyRowToGame(rows[i])]

\* SELECT * FROM games WHERE is_active = 1 ORDER BY created_at DESC LIMIT 1
LegacyDb_getActiveGame(gs) ==
    LET active == LegacyDb_getAllGames({r \in gs : r.is_active = 1})
    IN  IF active = <<>> THEN NULL ELSE Head(active)

\* UPDATE games SET name = ?, completed_at = ?, is_active = ? WHERE id = ?
LegacyDb_updateGame(gs, game) ==
    {IF r.id = game.id
     THEN [r EXCEPT !.name = game.name,
                    !.completed_at = LegacyGameToRow(game).completed_at,
                    !.is_active = LegacyGameToRow(game).is_active]
     ELSE r : r \in gs}

\* DELETE FROM games WHERE id = ?
LegacyDb_deleteGame(gs, gameId) == {r \in gs : r.id # gameId}

(* GameProvider *)

\* "Deactivate current game if exists", the first step of createGame and
\* of resumeGame
DeactivateCurrent(gs, current) ==
    IF current = NULL THEN gs
    ELSE LegacyDb_updateGame(gs, [current EXCEPT !.isActive = FALSE])

\* createGame(name): currentGame deactivated in the store, the new game
\* inserted active and made currentGame; allGames is not reloaded
GameProvider_createGame(gs, current, all, now, name) ==
    LET c == LegacyDb_createGame(DeactivateCurrent(gs, current), now,
                 [name |-> name, createdAt |-> now, completedAt |-> 0,
                  isActive |-> TRUE])
    IN  [games |-> c.games, currentGame |-> c.ret, allGames |-> all, err |-> "none"]

\* completeGame(): nothing without a currentGame; otherwise the game is
\* written with completedAt and isActive false, kept as currentGame, and
\* allGames is reloaded
GameProvider_completeGame(gs, current, all, now) ==
    IF current = NULL
    THEN [games |-> gs, currentGame |-> current, allGames |-> all, err |-> "none"]
    ELSE LET completedGame == [current EXCEPT !.completedAt = now, !.isActive = FALSE]
             written == LegacyDb_updateGame(gs, completedGame)
         IN  [games |-> written, currentGame |-> completedGame,
              allGames |-> LegacyDb_getAllGames(written), err |-> "none"]

\* resumeGame(gameId): currentGame deactivated in the store; the game is
\* looked up in allGames, and "Game not found" is thrown (and caught as an
\* error message) when it is not there; otherwise it is written active,
\* made currentGame, and allGames is reloaded
GameProvider_resumeGame(gs, current, all, gameId) ==
    LET deactivated == DeactivateCurrent(gs, current)
        Wanted(game) == game.id = gameId
        found == SelectSeq(all, Wanted)
    IN  IF found = <<>>
        THEN [games |-> deactivated, currentGame |-> current, allGames |-> all,
              err |-> ErrGameNotFound]
        ELSE LET resumedGame == [Head(found) EXCEPT !.isActive = TRUE]
                 written == LegacyDb_updateGame(deactivated, resumedGame)
             IN  [games |-> written, currentGame |-> resumedGame,
                  allGames |-> LegacyDb_getAllGames(written), err |-> "none"]

\* deleteGame(gameId): the row deleted, currentGame cleared when it is the
\* deleted game, allGames reloaded
GameProvider_deleteGame(gs, current, all, gameId) ==
    LET written == LegacyDb_deleteGame(gs, gameId)
    IN  [games |-> written,
         currentGame |-> IF current # NULL /\ current.id = gameId THEN NULL ELSE current,
         allGames |-> LegacyDb_getAllGames(written), err |-> "none"]

----------------------------------------------------------------------------
(* Inputs of the calls *)

GameIds == 1..MaxGames

ValidData1 ==
    [name |-> <<"R", "T">>, startDate |-> DateOf(1), endDate |-> DateUndefined,
     startLocation |-> <<"N">>, destination |-> <<"C">>]

ValidData2 ==
    [name |-> <<" ", "R", " ">>, startDate |-> DateOf(1), endDate |-> DateOf(2),
     startLocation |-> <<"N", " ">>, destination |-> <<"C">>]

\* every combination of field values, valid and invalid
AllGameData ==
    [name : {<<>>, <<" ">>, <<"R", "T">>, <<" ", "R", " ">>},
     startDate : {DateUndefined, DateEmpty, DateGarbage, DateOf(1)},
     endDate : {DateUndefined, DateEmpty, DateGarbage, DateOf(1), DateOf(2)},
     startLocation : {<<" ">>, <<"N", " ">>},
     destination : {<<>>, <<"C">>}]

\* the data the actions create games from
CreateInputs ==
    {ValidData2,
     [ValidData1 EXCEPT !.name = <<" ">>],
     [ValidData2 EXCEPT !.endDate = DateOf(1)]}

\* the state codes the actions toggle
ToggleCodes == ((total - TopCodes + 1)..total) \cup InvalidCodes

Idle == [pc |-> "idle", gameId |-> 0, list |-> <<>>]

\* a call returned (or threw err): its argument id, and what kind of value it gave
Returned(op, id, err, ret) == [op |-> op, id |-> id, err |-> err, ret |-> ret, value |-> NULL]

\* a createGame returned the game it built
ReturnedGame(op, game) == [op |-> op, id |-> game.id, err |-> "none", ret |-> "game", value |-> game]

BoolStr(b) == IF b THEN "true" ELSE "false"

----------------------------------------------------------------------------
(* DatabaseService, DatabaseMigrations and DatabaseManager.  `store` holds *)
(* the fields of the two singletons and what the database file keeps of    *)
(* the migrations: db and isInitialized are DatabaseService's fields,      *)
(* managerInitialized is DatabaseManager.isInitialized, migrationsTable    *)
(* tells whether table migrations exists and migrations is its rows (the   *)
(* version column, in insertion order).  Three fields are history kept for *)
(* the properties: opened (an initialize has succeeded and no close has    *)
(* since), upRuns (how often each migration's up statement has run) and    *)
(* faults (how many statements of runMigrations have failed so far).       *)

\* the connection object SQLite.openDatabase resolves to
SQLiteDatabase == [handle |-> TRUE]

ErrQueryFailed == "Query execution failed"
ErrOpenFailed == "openDatabase failed"
ErrCloseFailed == "close failed"
ErrDbNotInitialized == "Database not initialized"
ErrManagerNotInitialized == "DatabaseManager not initialized. Call initialize() first."
ErrPrimaryKey == "UNIQUE constraint failed: migrations.version"

\* the versions of getMigrations(), in list order
getMigrations == [v \in 1..MaxMigrations |-> v]

\* the singletons as constructed, over a database file that has never been migrated
ConstructedStore ==
    [db |-> NULL, isInitialized |-> FALSE, managerInitialized |-> FALSE,
     migrationsTable |-> FALSE, migrations |-> <<>>,
     opened |-> FALSE, upRuns |-> [v \in 1..MaxMigrations |-> 0], faults |-> 0]

\* how initialize and close can end
InitializeOutcomes == {"ok", "openFails", "tablesFail"}
CloseOutcomes == {"ok", "closeFails"}

\* DatabaseService.initialize: nothing when already initialized; otherwise
\* db is assigned when openDatabase resolves, isInitialized only after
\* createTables; a rejection at either await is rethrown
DatabaseService_initialize(st, outcome) ==
    IF st.isInitialized THEN [store |-> st, err |-> "none"]
    ELSE IF outcome = "openFails" THEN [store |-> st, err |-> ErrOpenFailed]
    ELSE IF outcome = "tablesFail"
         THEN [store |-> [st EXCEPT !.db = SQLiteDatabase], err |-> ErrQueryFailed]
    ELSE [store |-> [st EXCEPT !.db = SQLiteDatabase, !.isInitialized = TRUE,
                               !.opened = TRUE],
          err |-> "none"]

\* DatabaseService.close: only when db is set; db.close() may reject, and
\* then neither field is reset
DatabaseService_close(st, outcome) ==
    IF st.db = NULL THEN [store |-> st, err |-> "none"]
    ELSE IF outcome = "closeFails" THEN [store |-> st, err |-> ErrCloseFailed]
    ELSE [store |-> [st EXCEPT !.db = NULL, !.isInitialized = FALSE, !.opened = FALSE],
          err |-> "none"]

\* DatabaseService.executeQuery: throws when db is null, otherwise hands the
\* statement to the connection (ran)
executeQuery(st) ==
    IF st.db = NULL THEN [err |-> ErrDbNotInitialized, ran |-> FALSE]
    ELSE [err |-> "none", ran |-> TRUE]

\* DatabaseService.isReady
DatabaseService_isReady(st) == st.isInitialized /\ st.db # NULL

(* DatabaseMigrations *)

\* no statement of the call fails
NoFault == [version |-> 0, step |-> "none"]

\* the statement that fails: CREATE TABLE migrations, or the up statement or
\* the ledger INSERT of one migration
Faults ==
    {NoFault, [version |-> 0, step |-> "table"]} \cup
    [version : 1..MaxMigrations, step : {"up", "mark"}]

SeqMax(s) == IF s = <<>> THEN 0 ELSE CHOOSE m \in {s[i] : i \in 1..Len(s)} :
                                        \A i \in 1..Len(s) : s[i] <= m

\* a getCurrentVersion that never finds a row
getCurrentVersion_Zero(st) == 0

\* getCurrentVersion: SELECT MAX(version) FROM migrations, `|| 0` for the
\* NULL of an empty table, and 0 from the catch when the query throws (no
\* connection, or no table migrations)
getCurrentVersion(st) ==
    IF st.db = NULL \/ ~st.migrationsTable THEN 0 ELSE SeqMax(st.migrations)

\* version INTEGER PRIMARY KEY of table migrations
PrimaryKeyViolation(rows, version) == \E i \in 1..Len(rows) : rows[i] = version

\* the result of runMigrations and of its parts: the store it leaves, the
\* error it throws, the number of pending migrations it found, and the
\* versions whose up statement it ran and whose ledger row it wrote
MigrationResult(st, err, pending, ups, marks) ==
    [store |-> st, err |-> err, pending |-> pending, ups |-> ups, marks |-> marks]

\* an executeMigration that writes the ledger row before it runs up
executeMigration_MarkFirst(st, version, fault) ==
    LET marked == [st EXCEPT !.migrations = Append(@, version)]
        ran    == [marked EXCEPT !.upRuns[version] = @ + 1]
    IN  IF fault = [version |-> version, step |-> "mark"]
        THEN MigrationResult(st, ErrQueryFailed, 0, <<>>, <<>>)
        ELSE IF PrimaryKeyViolation(st.migrations, version)
        THEN MigrationResult(st, ErrPrimaryKey, 0, <<>>, <<>>)
        ELSE IF fault = [version |-> version, step |-> "up"]
        THEN MigrationResult(marked, ErrQueryFailed, 0, <<>>, <<version>>)
        ELSE MigrationResult(ran, "none", 0, <<version>>, <<version>>)

\* executeMigration: the up statement, then markMigrationExecuted's INSERT;
\* an error of either is logged and rethrown
executeMigration(st, version, fault) ==
    LET ran    == [st EXCEPT !.upRuns[version] = @ + 1]
        marked == [ran EXCEPT !.migrations = Append(@, version)]
    IN  IF fault = [version |-> version, step |-> "up"]
        THEN MigrationResult(st, ErrQueryFailed, 0, <<>>, <<>>)
        ELSE IF fault = [version |-> version, step |-> "mark"]
        THEN MigrationResult(ran, ErrQueryFailed, 0, <<version>>, <<>>)
        ELSE IF PrimaryKeyViolation(ran.migrations, version)
        THEN MigrationResult(ran, ErrPrimaryKey, 0, <<version>>, <<>>)
        ELSE MigrationResult(marked, "none", 0, <<version>>, <<version>>)

RECURSIVE RunPending(_, _, _)
\* the for loop of runMigrations over the pending migrations: it stops at
\* the first executeMigration that throws
RunPending(st, pendingMigrations, fault) ==
    IF pendingMigrations = <<>> THEN MigrationResult(st, "none", 0, <<>>, <<>>)
    ELSE LET m == executeMigration(st, Head(pendingMigrations), fault) IN
         IF m.err # "none" THEN m
         ELSE LET rest == RunPending(m.store, Tail(pendingMigrations), fault)
              IN  MigrationResult(rest.store, rest.err, 0, m.ups \o rest.ups,
                                  m.marks \o rest.marks)

\* runMigrations: initializeMigrationsTable, getCurrentVersion, the
\* migrations above the current version, each executed in list order
runMigrations(st, fault) ==
    IF st.db = NULL THEN MigrationResult(st, ErrDbNotInitialized, 0, <<>>, <<>>)
    ELSE IF fault.step = "table" THEN MigrationResult(st, ErrQueryFailed, 0, <<>>, <<>>)
    ELSE LET withTable == [st EXCEPT !.migrationsTable = TRUE]
             currentVersion == getCurrentVersion(withTable)
             Pending(v) == v > currentVersion
             pendingMigrations == SelectSeq(getMigrations, Pending)
             run == RunPending(withTable, pendingMigrations, fault)
         IN  [run EXCEPT !.pending = Len(pendingMigrations)]

(* DatabaseManager *)

\* an initialize that sets isInitialized before the migrations have run
DatabaseManager_initialize_FlagFirst(st, outcome, fault) ==
    IF st.managerInitialized THEN [store |-> st, err |-> "none"]
    ELSE LET i == DatabaseService_initialize(st, outcome) IN
         IF i.err # "none" THEN i
         ELSE LET r == runMigrations([i.store EXCEPT !.managerInitialized = TRUE], fault)
              IN  [store |-> r.store, err |-> r.err]

\* DatabaseManager.initialize: nothing when already initialized; otherwise
\* dbService.initialize(), migrations.runMigrations(), and isInitialized is
\* set only when both have returned; an error of either is rethrown
DatabaseManager_initialize(st, outcome, fault) ==
    IF st.managerInitialized THEN [store |-> st, err |-> "none"]
    ELSE LET i == DatabaseService_initialize(st, outcome) IN
         IF i.err # "none" THEN i
         ELSE LET r == runMigrations(i.store, fault) IN
              IF r.err # "none" THEN [store |-> r.store, err |-> r.err]
              ELSE [store |-> [r.store EXCEPT !.managerInitialized = TRUE],
                    err |-> "none"]

\* DatabaseManager.close: dbService.close(), then isInitialized = false
DatabaseManager_close(st, outcome) ==
    LET c == DatabaseService_close(st, outcome) IN
    IF c.err # "none" THEN c
    ELSE [store |-> [c.store EXCEPT !.managerInitialized = FALSE], err |-> "none"]

\* getGameRepository and getSpottedStateRepository: throw unless initialized
getRepository(st) ==
    IF ~st.managerInitialized THEN [err |-> ErrManagerNotInitialized, ret |-> "void"]
    ELSE [err |-> "none", ret |-> "repository"]

\* DatabaseManager.isReady
DatabaseManager_isReady(st) == st.managerInitialized /\ DatabaseService_isReady(st)

\* the store once the application has started: DatabaseManager.initialize
\* has returned without a failing statement
StartedStore == DatabaseManager_initialize(ConstructedStore, "ok", NoFault).store

----------------------------------------------------------------------------
(* The store found at start-up: empty, or persisted by an earlier run that *)
(* created one game and spotted all but the last TopCodes states in it     *)

PreloadedGames == GameService_createGame({}, 1, 1, ValidData1).games

PreloadedSpotted == [i \in 1..(total - TopCodes) |-> [gameId |-> 1, stateCode |-> i]]

Init ==
    /\ \/ games = {} /\ spotted_states = <<>> /\ nextId = 1
       \/ games = PreloadedGames /\ spotted_states = PreloadedSpotted /\ nextId = 2
    /\ last = Returned("none", 0, "none", "void")
    /\ del = Idle
    /\ store = StartedStore
    /\ calls = <<>>
    /\ activeGame = NULL /\ currentGame = NULL /\ allGames = <<>>

----------------------------------------------------------------------------
(* GameService calls, each run to its end before the next one starts *)

CreateGame(gameData) ==
    /\ del = Idle
    /\ nextId <= MaxGames
    /\ LET r == GameService_createGame(games, nextId, nextId, gameData) IN
       /\ games' = r.games
       /\ nextId' = IF r.err = "none" THEN nextId + 1 ELSE nextId
       /\ last' = IF r.err = "none" THEN ReturnedGame("createGame", r.ret)
                  ELSE Returned("createGame", 0, r.err, "void")
    /\ UNCHANGED <<spotted_states, del, store, calls, activeGame, currentGame, allGames>>

ToggleStateSpotted(gameId, stateCode) ==
    /\ del = Idle
    /\ LET r == GameService_toggleStateSpotted(games, spotted_states, gameId, stateCode) IN
       /\ games' = r.games
       /\ spotted_states' = r.spotted
       /\ last' = Returned("toggleStateSpotted", gameId, r.err,
                           IF r.err = "none" THEN BoolStr(r.ret) ELSE "void")
    /\ UNCHANGED <<nextId, del, store, calls, activeGame, currentGame, allGames>>

CompleteGame(gameId) ==
    /\ del = Idle
    /\ LET r == GameService_completeGame(games, gameId) IN
       /\ games' = r.games
       /\ last' = Returned("completeGame", gameId, r.err, "void")
    /\ UNCHANGED <<spotted_states, nextId, del, store, calls, activeGame, currentGame, allGames>>

DeleteGame(gameId) ==
    /\ del = Idle
    /\ LET r == GameService_deleteGame(games, spotted_states, gameId) IN
       /\ games' = r.games
       /\ spotted_states' = r.spotted
       /\ last' = Returned("deleteGame", gameId, r.err, "void")
    /\ UNCHANGED <<nextId, del, store, calls, activeGame, currentGame, allGames>>

GetGameState(gameId) ==
    /\ del = Idle
    /\ LET r == getGameState(games, spotted_states, gameId) IN
       last' = Returned("getGameState", gameId, r.err,
                        IF r.err = "none" THEN "state" ELSE "void")
    /\ UNCHANGED <<games, spotted_states, nextId, del, store, calls, activeGame, currentGame, allGames>>

ValidateGameData(gameData) ==
    /\ del = Idle
    /\ last' = [Returned("validateGameData", 0, "none",
                         BoolStr(validateGameData(gameData).isValid))
                   EXCEPT !.value = validateGameData(gameData).errors]
    /\ UNCHANGED <<games, spotted_states, nextId, del, store, calls, activeGame, currentGame, allGames>>

Next ==
    \/ \E gameData \in CreateInputs : CreateGame(gameData)
    \/ \E gameData \in CreateInputs : ValidateGameData(gameData)
    \/ \E gameId \in GameIds, stateCode \in ToggleCodes : ToggleStateSpotted(gameId, stateCode)
    \/ \E gameId \in GameIds : CompleteGame(gameId)
    \/ \E gameId \in GameIds : DeleteGame(gameId)
    \/ \E gameId \in GameIds : GetGameState(gameId)

Spec == Init /\ [][Next]_vars

----------------------------------------------------------------------------
(* GameService.deleteGame step by step: every await is a point where the   *)
(* call can fail (the statement throws and the error propagates) or the    *)
(* process can be interrupted; no other call runs in between               *)

\* a deleteGame that deletes the game without waiting for the loop
LoopDone_GameFirst(list) == TRUE

\* the for loop over the listed rows has run out
LoopDone(list) == list = <<>>

\* const game = await getGameById(gameId); throws when there is none
DeleteGameStart(gameId) ==
    /\ del = Idle
    /\ IF getGameById(games, gameId) = NULL
       THEN /\ last' = Returned("deleteGame", gameId, ErrGameNotFound, "void")
            /\ del' = del
       ELSE /\ del' = [pc |-> "list", gameId |-> gameId, list |-> <<>>]
            /\ last' = last
    /\ UNCHANGED <<games, spotted_states, nextId, store, calls, activeGame, currentGame, allGames>>

\* const spottedStates = await getSpottedStatesForGame(gameId)
DeleteGameList ==
    /\ del.pc = "list"
    /\ del' = [del EXCEPT !.pc = "remove",
                          !.list = getSpottedStatesForGame(spotted_states, del.gameId)]
    /\ UNCHANGED <<games, spotted_states, nextId, last, store, calls, activeGame, currentGame, allGames>>

\* await removeSpottedState(gameId, spottedState.stateCode), once per row
DeleteGameRemove ==
    /\ del.pc = "remove"
    /\ ~LoopDone(del.list)
    /\ spotted_states' = removeSpottedState(spotted_states, del.gameId, Head(del.list).stateCode)
    /\ del' = [del EXCEPT !.list = Tail(del.list)]
    /\ UNCHANGED <<games, nextId, last, store, calls, activeGame, currentGame, allGames>>

\* await this.gameRepository.deleteGame(gameId), after the loop
DeleteGameFinish ==
    /\ del.pc = "remove"
    /\ LoopDone(del.list)
    /\ games' = GameRepository_deleteGame(games, del.gameId)
    /\ last' = Returned("deleteGame", del.gameId, "none", "void")
    /\ del' = Idle
    /\ UNCHANGED <<spotted_states, nextId, store, calls, activeGame, currentGame, allGames>>

\* the awaited statement throws, or the process stops here
DeleteGameFail ==
    /\ del.pc # "idle"
    /\ last' = Returned("deleteGame", del.gameId, ErrQueryFailed, "void")
    /\ del' = Idle
    /\ UNCHANGED <<games, spotted_states, nextId, store, calls, activeGame, currentGame, allGames>>

NextDelete ==
    \/ \E gameData \in CreateInputs : CreateGame(gameData)
    \/ \E gameId \in GameIds, stateCode \in ToggleCodes : ToggleStateSpotted(gameId, stateCode)
    \/ \E gameId \in GameIds : CompleteGame(gameId)
    \/ \E gameId \in GameIds : DeleteGameStart(gameId)
    \/ DeleteGameList
    \/ DeleteGameRemove
    \/ DeleteGameFinish
    \/ DeleteGameFail

SpecDelete == Init /\ [][NextDelete]_vars

----------------------------------------------------------------------------
(* SpottedStateRepository called directly, as the repository tests do *)

\* the rows the calls of SpecRepo have added
AddedRows(ss) ==
    LET Added(r) == r.stateCode \in ToggleCodes
    IN  Len(SelectSeq(ss, Added))

RepoAddSpottedState(gameId, stateCode) ==
    /\ AddedRows(spotted_states) < MaxRows
    /\ LET a == addSpottedState(spotted_states, gameId, stateCode) IN
       /\ spotted_states' = a.spotted
       /\ last' = Returned("addSpottedState", gameId, a.err, "void")
    /\ UNCHANGED <<games, nextId, del, store, calls, activeGame, currentGame, allGames>>

RepoRemoveSpottedState(gameId, stateCode) ==
    /\ spotted_states' = removeSpottedState(spotted_states, gameId, stateCode)
    /\ last' = Returned("removeSpottedState", gameId, "none", "void")
    /\ UNCHANGED <<games, nextId, del, store, calls, activeGame, currentGame, allGames>>

RepoToggleStateSpotted(gameId, stateCode) ==
    /\ AddedRows(spotted_states) < MaxRows \/ isStateSpotted(spotted_states, gameId, stateCode)
    /\ LET t == SpottedStateRepository_toggleStateSpotted(spotted_states, gameId, stateCode) IN
       /\ spotted_states' = t.spotted
       /\ last' = Returned("SpottedStateRepository.toggleStateSpotted", gameId, t.err,
                           IF t.err = "none" THEN BoolStr(t.ret) ELSE "void")
    /\ UNCHANGED <<games, nextId, del, store, calls, activeGame, currentGame, allGames>>

RepoGetGameProgress(gameId) ==
    /\ last' = Returned("getGameProgress", gameId, "none", "progress")
    /\ UNCHANGED <<games, spotted_states, nextId, del, store, calls, activeGame, currentGame, allGames>>

NextRepo ==
    \/ \E gameId \in GameIds, stateCode \in ToggleCodes : RepoAddSpottedState(gameId, stateCode)
    \/ \E gameId \in GameIds, stateCode \in ToggleCodes : RepoRemoveSpottedState(gameId, stateCode)
    \/ \E gameId \in GameIds, stateCode \in ToggleCodes : RepoToggleStateSpotted(gameId, stateCode)
    \/ \E gameId \in GameIds : RepoGetGameProgress(gameId)

SpecRepo == Init /\ [][NextRepo]_vars

----------------------------------------------------------------------------
(* GameRepository called directly, as the repository tests do *)

RepoCreateGame(gameData) ==
    /\ nextId <= MaxGames
    /\ LET c == GameRepository_createGame(games, nextId, nextId,
                    [name |-> gameData.name, startDate |-> gameData.startDate,
                     endDate |-> gameData.endDate,
                     startLocation |-> gameData.startLocation,
                     destination |-> gameData.destination, isComplete |-> FALSE]) IN
       /\ games' = c.games
       /\ last' = ReturnedGame("GameRepository.createGame", c.ret)
    /\ nextId' = nextId + 1
    /\ UNCHANGED <<spotted_states, del, store, calls, activeGame, currentGame, allGames>>

RepoGetGameById(gameId) ==
    /\ last' = Returned("getGameById", gameId, "none",
                        IF getGameById(games, gameId) = NULL THEN "null" ELSE "game")
    /\ UNCHANGED <<games, spotted_states, nextId, del, store, calls, activeGame, currentGame, allGames>>

RepoGetActiveGame ==
    /\ last' = Returned("getActiveGame",
                        IF getActiveGame(games) = NULL THEN 0 ELSE getActiveGame(games).id,
                        "none",
                        IF getActiveGame(games) = NULL THEN "null" ELSE "game")
    /\ UNCHANGED <<games, spotted_states, nextId, del, store, calls, activeGame, currentGame, allGames>>

RepoMarkGameComplete(gameId) ==
    /\ games' = markGameComplete(games, gameId)
    /\ last' = Returned("markGameComplete", gameId, "none", "void")
    /\ UNCHANGED <<spotted_states, nextId, del, store, calls, activeGame, currentGame, allGames>>

RepoDeleteGame(gameId) ==
    /\ games' = GameRepository_deleteGame(games, gameId)
    /\ last' = Returned("GameRepository.deleteGame", gameId, "none", "void")
    /\ UNCHANGED <<spotted_states, nextId, del, store, calls, activeGame, currentGame, allGames>>

NextGameRepo ==
    \/ \E gameData \in {ValidData1, ValidData2} : RepoCreateGame(gameData)
    \/ \E gameId \in GameIds : RepoGetGameById(gameId)
    \/ RepoGetActiveGame
    \/ \E gameId \in GameIds : RepoMarkGameComplete(gameId)
    \/ \E gameId \in GameIds : RepoDeleteGame(gameId)

SpecGameRepo == Init /\ [][NextGameRepo]_vars

----------------------------------------------------------------------------
(* The database layer called directly, from construction on: the calls of *)
(* DatabaseService, DatabaseMigrations and DatabaseManager, each run to   *)
(* its end, any of whose statements may fail                              *)

InitStore ==
    /\ games = {} /\ spotted_states = <<>> /\ nextId = 1
    /\ last = Returned("none", 0, "none", "void")
    /\ del = Idle
    /\ store = ConstructedStore
    /\ calls = <<>>
    /\ activeGame = NULL /\ currentGame = NULL /\ allGames = <<>>

\* what a call of runMigrations did, kept with its outcome
MigrationReport(r, fault) ==
    [fault |-> IF r.err = ErrQueryFailed THEN fault ELSE NoFault,
     pending |-> r.pending, ups |-> r.ups, marks |-> r.marks]

CountFault(st, err) == [st EXCEPT !.faults = IF err = ErrQueryFailed THEN @ + 1 ELSE @]

Initialize(outcome) ==
    /\ LET i == DatabaseService_initialize(store, outcome) IN
       /\ store' = i.store
       /\ last' = Returned("DatabaseService.initialize", 0, i.err, "void")
    /\ UNCHANGED <<games, spotted_states, nextId, del, calls, activeGame, currentGame, allGames>>

Close(outcome) ==
    /\ LET c == DatabaseService_close(store, outcome) IN
       /\ store' = c.store
       /\ last' = Returned("DatabaseService.close", 0, c.err, "void")
    /\ UNCHANGED <<games, spotted_states, nextId, del, calls, activeGame, currentGame, allGames>>

ExecuteQuery ==
    /\ last' = Returned("executeQuery", 0, executeQuery(store).err,
                        IF executeQuery(store).ran THEN "ran" ELSE "void")
    /\ UNCHANGED <<games, spotted_states, nextId, del, store, calls, activeGame, currentGame, allGames>>

IsReady ==
    /\ last' = Returned("DatabaseService.isReady", 0, "none",
                        BoolStr(DatabaseService_isReady(store)))
    /\ UNCHANGED <<games, spotted_states, nextId, del, store, calls, activeGame, currentGame, allGames>>

RunMigrations(fault) ==
    /\ fault = NoFault \/ store.faults < MaxFaults
    /\ LET r == runMigrations(store, fault) IN
       /\ store' = CountFault(r.store, r.err)
       /\ last' = [Returned("runMigrations", 0, r.err, "void")
                      EXCEPT !.value = MigrationReport(r, fault)]
    /\ UNCHANGED <<games, spotted_states, nextId, del, calls, activeGame, currentGame, allGames>>

ManagerInitialize(outcome, fault) ==
    /\ fault = NoFault \/ store.faults < MaxFaults
    /\ LET i == DatabaseManager_initialize(store, outcome, fault) IN
       /\ store' = CountFault(i.store,
                               IF DatabaseService_initialize(store, outcome).err = "none"
                               THEN i.err ELSE "none")
       /\ last' = Returned("DatabaseManager.initialize", 0, i.err, "void")
    /\ UNCHANGED <<games, spotted_states, nextId, del, calls, activeGame, currentGame, allGames>>

ManagerClose(outcome) ==
    /\ LET c == DatabaseManager_close(store, outcome) IN
       /\ store' = c.store
       /\ last' = Returned("DatabaseManager.close", 0, c.err, "void")
    /\ UNCHANGED <<games, spotted_states, nextId, del, calls, activeGame, currentGame, allGames>>

GetRepository ==
    /\ last' = Returned("getGameRepository", 0, getRepository(store).err,
                        getRepository(store).ret)
    /\ UNCHANGED <<games, spotted_states, nextId, del, store, calls, activeGame, currentGame, allGames>>

ManagerIsReady ==
    /\ last' = Returned("DatabaseManager.isReady", 0, "none",
                        BoolStr(DatabaseManager_isReady(store)))
    /\ UNCHANGED <<games, spotted_states, nextId, del, store, calls, activeGame, currentGame, allGames>>

NextStore ==
    \/ \E outcome \in InitializeOutcomes : Initialize(outcome)
    \/ \E outcome \in CloseOutcomes : Close(outcome)
    \/ ExecuteQuery
    \/ IsReady
    \/ \E fault \in Faults : RunMigrations(fault)
    \/ \E outcome \in InitializeOutcomes, fault \in Faults : ManagerInitialize(outcome, fault)
    \/ \E outcome \in CloseOutcomes : ManagerClose(outcome)
    \/ GetRepository
    \/ ManagerIsReady

SpecStore == InitStore /\ [][NextStore]_vars

----------------------------------------------------------------------------
(* GameCompletionService over GameService: the calls run to their end; a  *)
(* toggleStateSpotted may also fail in the statements that follow the     *)
(* repository's toggle, which is how a game comes to hold all the states  *)
(* without being complete                                                 *)

\* the counts getAchievementLevel is called with: both sides of every boundary
LevelInputs == {0, 24, 25, 39, 40, 49, 50}

\* toggleStateSpotted whose getGameProgress or markGameComplete statement
\* fails: the repository's toggle has been done, the error is rethrown
ToggleStateSpottedFail(gameId, stateCode) ==
    /\ del = Idle
    /\ stateCode \in US_STATES
    /\ getGameById(games, gameId) # NULL
    /\ ~getGameById(games, gameId).isComplete
    /\ LET t == SpottedStateRepository_toggleStateSpotted(spotted_states, gameId, stateCode) IN
       /\ t.err = "none"
       /\ spotted_states' = t.spotted
    /\ last' = Returned("toggleStateSpotted", gameId, ErrQueryFailed, "void")
    /\ UNCHANGED <<games, nextId, del, store, calls, activeGame, currentGame, allGames>>

CheckAndHandleCompletion(gameId) ==
    /\ del = Idle
    /\ LET r == checkAndHandleCompletion(games, spotted_states, gameId) IN
       /\ games' = r.games
       /\ last' = [Returned("checkAndHandleCompletion", gameId, r.err,
                            IF r.err # "none" THEN "void"
                            ELSE IF r.ret = NULL THEN "null" ELSE "event")
                      EXCEPT !.value = r.ret]
    /\ UNCHANGED <<spotted_states, nextId, del, store, calls, activeGame, currentGame, allGames>>

GetAchievementLevel(statesFound) ==
    /\ last' = Returned("getAchievementLevel", statesFound, "none",
                        getAchievementLevel(statesFound))
    /\ UNCHANGED <<games, spotted_states, nextId, del, store, calls, activeGame, currentGame, allGames>>

CheckMilestones ==
    /\ del = Idle
    /\ last' = [Returned("checkMilestones", 0, "none", "milestones")
                   EXCEPT !.value = checkMilestones(games, spotted_states)]
    /\ UNCHANGED <<games, spotted_states, nextId, del, store, calls, activeGame, currentGame, allGames>>

NextCompletion ==
    \/ CheckMilestones
    \/ \E gameData \in CreateInputs : CreateGame(gameData)
    \/ \E gameId \in GameIds, stateCode \in ToggleCodes : ToggleStateSpotted(gameId, stateCode)
    \/ \E gameId \in GameIds, stateCode \in ToggleCodes : ToggleStateSpottedFail(gameId, stateCode)
    \/ \E gameId \in GameIds : CompleteGame(gameId)
    \/ \E gameId \in GameIds : CheckAndHandleCompletion(gameId)
    \/ \E statesFound \in LevelInputs : GetAchievementLevel(statesFound)

SpecCompletion == Init /\ [][NextCompletion]_vars

----------------------------------------------------------------------------
(* GameManagerProvider.toggleStateSpotted, await by await.  A call in      *)
(* progress is a record of `calls`: its arguments, the statement it awaits *)
(* (pc), what isStateSpotted answered (seen) and what the repository's     *)
(* toggle returned (ret).  Nothing in the provider or in useStateToggle    *)
(* keeps a call from starting while another one is in progress, so calls   *)
(* interleave at their awaits.  state.activeGame is taken to be the active *)
(* game of the store; the dispatch and refreshGameState that follow the    *)
(* service call write nothing to the store and are left out.               *)

ErrNoActiveGame == "No active game"

RemoveAt(s, i) == [j \in 1..(Len(s) - 1) |-> IF j < i THEN s[j] ELSE s[j + 1]]

\* a toggleStateSpotted call returned or threw
ReturnedToggle(call, err, ret) ==
    [Returned("GameManager.toggleStateSpotted", call.gameId, err, ret)
        EXCEPT !.value = [stateCode |-> call.stateCode]]

\* the call is made: the provider's check of state.activeGame and
\* GameService's validation of the state code run before the first await
ToggleStart(stateCode) ==
    /\ Len(calls) < MaxCalls
    /\ LET loaded == getActiveGame(games) IN
       IF loaded = NULL
       THEN /\ last' = Returned("GameManager.toggleStateSpotted", 0, ErrNoActiveGame, "void")
            /\ calls' = calls
       ELSE IF stateCode \notin US_STATES
       THEN /\ last' = Returned("GameManager.toggleStateSpotted", loaded.id,
                                ErrInvalidStateCode, "void")
            /\ calls' = calls
       ELSE /\ calls' = Append(calls, [gameId |-> loaded.id, stateCode |-> stateCode,
                                       pc |-> "getGameById", seen |-> FALSE, ret |-> FALSE])
            /\ last' = last
    /\ UNCHANGED <<games, spotted_states, nextId, del, store, activeGame, currentGame, allGames>>

\* const game = await getGameById(gameId), and the two checks on it
ToggleGetGame(i) ==
    /\ calls[i].pc = "getGameById"
    /\ LET game == getGameById(games, calls[i].gameId) IN
       IF game = NULL
       THEN /\ calls' = RemoveAt(calls, i)
            /\ last' = ReturnedToggle(calls[i], ErrGameNotFound, "void")
       ELSE IF game.isComplete
       THEN /\ calls' = RemoveAt(calls, i)
            /\ last' = ReturnedToggle(calls[i], ErrCompletedGame, "void")
       ELSE /\ calls' = [calls EXCEPT ![i].pc = "isStateSpotted"]
            /\ last' = last
    /\ UNCHANGED <<games, spotted_states, nextId, del, store, activeGame, currentGame, allGames>>

\* const isSpotted = await isStateSpotted(gameId, stateCode)
ToggleIsSpotted(i) ==
    /\ calls[i].pc = "isStateSpotted"
    /\ calls' = [calls EXCEPT ![i].pc = "addOrRemove",
                              ![i].seen = isStateSpotted(spotted_states, calls[i].gameId,
                                                         calls[i].stateCode)]
    /\ UNCHANGED <<games, spotted_states, nextId, last, del, store, activeGame, currentGame, allGames>>

\* await removeSpottedState(...) or await addSpottedState(...), as isSpotted says
ToggleAddOrRemove(i) ==
    /\ calls[i].pc = "addOrRemove"
    /\ IF calls[i].seen
       THEN /\ spotted_states' = removeSpottedState(spotted_states, calls[i].gameId,
                                                    calls[i].stateCode)
            /\ calls' = [calls EXCEPT ![i].pc = "getGameProgress", ![i].ret = FALSE]
            /\ last' = last
       ELSE LET a == addSpottedState(spotted_states, calls[i].gameId, calls[i].stateCode) IN
            /\ spotted_states' = a.spotted
            /\ IF a.err # "none"
               THEN /\ calls' = RemoveAt(calls, i)
                    /\ last' = ReturnedToggle(calls[i], a.err, "void")
               ELSE /\ calls' = [calls EXCEPT ![i].pc = "getGameProgress", ![i].ret = TRUE]
                    /\ last' = last
    /\ UNCHANGED <<games, nextId, del, store, activeGame, currentGame, allGames>>

\* const progress = await getGameProgress(gameId); the call returns here
\* unless the progress is full
ToggleProgress(i) ==
    /\ calls[i].pc = "getGameProgress"
    /\ LET progress == getGameProgress(spotted_states, calls[i].gameId) IN
       IF progress.found = progress.total
       THEN /\ calls' = [calls EXCEPT ![i].pc = "markGameComplete"]
            /\ last' = last
       ELSE /\ calls' = RemoveAt(calls, i)
            /\ last' = ReturnedToggle(calls[i], "none", BoolStr(calls[i].ret))
    /\ UNCHANGED <<games, spotted_states, nextId, del, store, activeGame, currentGame, allGames>>

\* await markGameComplete(gameId); return isNowSpotted
ToggleMarkComplete(i) ==
    /\ calls[i].pc = "markGameComplete"
    /\ games' = markGameComplete(games, calls[i].gameId)
    /\ calls' = RemoveAt(calls, i)
    /\ last' = ReturnedToggle(calls[i], "none", BoolStr(calls[i].ret))
    /\ UNCHANGED <<spotted_states, nextId, del, store, activeGame, currentGame, allGames>>

\* createGame of the provider, made while no toggle is in progress
ToggleCreateGame(gameData) ==
    /\ calls = <<>>
    /\ CreateGame(gameData)

NextToggle ==
    \/ \E gameData \in CreateInputs : ToggleCreateGame(gameData)
    \/ \E stateCode \in ToggleCodes : ToggleStart(stateCode)
    \/ \E i \in 1..Len(calls) : ToggleGetGame(i)
    \/ \E i \in 1..Len(calls) : ToggleIsSpotted(i)
    \/ \E i \in 1..Len(calls) : ToggleAddOrRemove(i)
    \/ \E i \in 1..Len(calls) : ToggleProgress(i)
    \/ \E i \in 1..Len(calls) : ToggleMarkComplete(i)

SpecToggle == Init /\ [][NextToggle]_vars

----------------------------------------------------------------------------
(* getGameStatistics over a store filled through SpottedStateRepository *)

InitStatistics ==
    /\ games = {} /\ spotted_states = <<>> /\ nextId = 1
    /\ last = Returned("none", 0, "none", "void")
    /\ del = Idle
    /\ store = StartedStore
    /\ calls = <<>>
    /\ activeGame = NULL /\ currentGame = NULL /\ allGames = <<>>

GetGameStatistics ==
    /\ \E most \in MostSpottedResults(spotted_states),
          rarest \in RarestResults(spotted_states) :
           last' = [Returned("getGameStatistics", 0, "none", "statistics")
                       EXCEPT !.value = getGameStatistics(games, spotted_states,
                                                          most, rarest)]
    /\ UNCHANGED <<games, spotted_states, nextId, del, store, calls, activeGame, currentGame, allGames>>

NextStatistics ==
    \/ \E gameData \in {ValidData1, ValidData2} : RepoCreateGame(gameData)
    \/ \E gameId \in GameIds, stateCode \in ToggleCodes : RepoAddSpottedState(gameId, stateCode)
    \/ \E gameId \in GameIds, stateCode \in ToggleCodes : RepoRemoveSpottedState(gameId, stateCode)
    \/ GetGameStatistics

SpecStatistics == InitStatistics /\ [][NextStatistics]_vars

----------------------------------------------------------------------------
(* GameService.createGame await by await.  GameManagerProvider.createGame  *)
(* awaits it with no guard against a second call, so two calls can be in   *)
(* progress; each element of `calls` is one of them.                       *)

ReturnedCreate(err) == Returned("createGame", 0, err, "void")

\* the call is made: the validation runs before the first await
CreateStart(gameData) ==
    /\ Len(calls) < MaxCalls
    /\ nextId + Len(calls) <= MaxGames
    /\ LET v == CreateGameValidation(gameData) IN
       IF v # "none"
       THEN /\ last' = ReturnedCreate(v)
            /\ calls' = calls
       ELSE /\ calls' = Append(calls, [gameData |-> gameData, pc |-> "getActiveGame"])
            /\ last' = last
    /\ UNCHANGED <<games, spotted_states, nextId, del, store, activeGame, currentGame, allGames>>

\* const activeGame = await getActiveGame(), and the check on it
CreateGetActive(i) ==
    /\ calls[i].pc = "getActiveGame"
    /\ IF getActiveGame(games) # NULL
       THEN /\ calls' = RemoveAt(calls, i)
            /\ last' = ReturnedCreate(ErrActiveGame)
       ELSE /\ calls' = [calls EXCEPT ![i].pc = "createGame"]
            /\ last' = last
    /\ UNCHANGED <<games, spotted_states, nextId, del, store, activeGame, currentGame, allGames>>

\* const game = await gameRepository.createGame(...); return game
CreateInsert(i) ==
    /\ calls[i].pc = "createGame"
    /\ LET gameData == calls[i].gameData
           c == GameRepository_createGame(games, nextId, nextId,
                    [name |-> trim(gameData.name),
                     startDate |-> gameData.startDate,
                     endDate |-> gameData.endDate,
                     startLocation |-> trim(gameData.startLocation),
                     destination |-> trim(gameData.destination),
                     isComplete |-> FALSE])
       IN  /\ games' = c.games
           /\ last' = ReturnedGame("createGame", c.ret)
    /\ nextId' = nextId + 1
    /\ calls' = RemoveAt(calls, i)
    /\ UNCHANGED <<spotted_states, del, store, activeGame, currentGame, allGames>>

NextCreate ==
    \/ \E gameData \in CreateInputs \cup {ValidData1} : CreateStart(gameData)
    \/ \E i \in 1..Len(calls) : CreateGetActive(i)
    \/ \E i \in 1..Len(calls) : CreateInsert(i)
    \/ \E gameId \in GameIds : CompleteGame(gameId)

SpecCreate == Init /\ [][NextCreate]_vars

----------------------------------------------------------------------------
(* GameService.toggleStateSpotted and GameService.deleteGame, both await   *)
(* by await: a deleteGame in progress (`del`) runs between the steps of    *)
(* the toggleStateSpotted calls in progress (`calls`)                      *)

NextToggleDelete ==
    \/ \E gameData \in CreateInputs : ToggleCreateGame(gameData)
    \/ \E stateCode \in ToggleCodes : ToggleStart(stateCode)
    \/ \E i \in 1..Len(calls) : ToggleGetGame(i)
    \/ \E i \in 1..Len(calls) : ToggleIsSpotted(i)
    \/ \E i \in 1..Len(calls) : ToggleAddOrRemove(i)
    \/ \E i \in 1..Len(calls) : ToggleProgress(i)
    \/ \E i \in 1..Len(calls) : ToggleMarkComplete(i)
    \/ \E gameId \in GameIds : DeleteGameStart(gameId)
    \/ DeleteGameList
    \/ DeleteGameRemove
    \/ DeleteGameFinish

SpecToggleDelete == Init /\ [][NextToggleDelete]_vars

----------------------------------------------------------------------------
(* DatabaseManager.initialize and DatabaseMigrations.runMigrations await by *)
(* await, every statement succeeding unless the store refuses it.  Both    *)
(* are methods of singletons whose only guard is the isInitialized flag,   *)
(* set when the call ends; each element of `calls` is a call in progress.  *)

ReturnedStartup(call, err) == Returned(call.op, 0, err, "void")

\* the continuation after runMigrations has returned: DatabaseManager sets
\* isInitialized, and the call returns
StartupReturn(st, call) ==
    IF call.op = "DatabaseManager.initialize"
    THEN [st EXCEPT !.managerInitialized = TRUE] ELSE st

\* DatabaseManager.initialize() is called: its isInitialized check and that
\* of DatabaseService.initialize run before the first await
StartupInitialize ==
    /\ Len(calls) < MaxCalls
    /\ IF store.managerInitialized
       THEN /\ last' = Returned("DatabaseManager.initialize", 0, "none", "void")
            /\ calls' = calls
       ELSE /\ calls' = Append(calls,
                            [op |-> "DatabaseManager.initialize",
                             pc |-> IF store.isInitialized THEN "initializeMigrationsTable"
                                    ELSE "openDatabase",
                             pendingMigrations |-> <<>>])
            /\ last' = last
    /\ UNCHANGED <<games, spotted_states, nextId, del, store, activeGame, currentGame, allGames>>

\* runMigrations() is called on its own; its first statement throws when
\* there is no connection
StartupRunMigrations ==
    /\ Len(calls) < MaxCalls
    /\ IF executeQuery(store).err # "none"
       THEN /\ last' = Returned("runMigrations", 0, executeQuery(store).err, "void")
            /\ calls' = calls
       ELSE /\ calls' = Append(calls, [op |-> "runMigrations",
                                       pc |-> "initializeMigrationsTable",
                                       pendingMigrations |-> <<>>])
            /\ last' = last
    /\ UNCHANGED <<games, spotted_states, nextId, del, store, activeGame, currentGame, allGames>>

\* this.db = await SQLite.openDatabase(config)
StartupOpen(i) ==
    /\ calls[i].pc = "openDatabase"
    /\ store' = [store EXCEPT !.db = SQLiteDatabase, !.opened = TRUE]
    /\ calls' = [calls EXCEPT ![i].pc = "createTables"]
    /\ UNCHANGED <<games, spotted_states, nextId, last, del, activeGame, currentGame, allGames>>

\* await this.createTables(); this.isInitialized = true
StartupCreateTables(i) ==
    /\ calls[i].pc = "createTables"
    /\ store' = [store EXCEPT !.isInitialized = TRUE]
    /\ calls' = [calls EXCEPT ![i].pc = "initializeMigrationsTable"]
    /\ UNCHANGED <<games, spotted_states, nextId, last, del, activeGame, currentGame, allGames>>

\* await this.initializeMigrationsTable()
StartupMigrationsTable(i) ==
    /\ calls[i].pc = "initializeMigrationsTable"
    /\ store' = [store EXCEPT !.migrationsTable = TRUE]
    /\ calls' = [calls EXCEPT ![i].pc = "getCurrentVersion"]
    /\ UNCHANGED <<games, spotted_states, nextId, last, del, activeGame, currentGame, allGames>>

\* const currentVersion = await this.getCurrentVersion(), the filter, and
\* the return when nothing is pending
StartupGetVersion(i) ==
    /\ calls[i].pc = "getCurrentVersion"
    /\ LET currentVersion == getCurrentVersion(store)
           Pending(v) == v > currentVersion
           pendingMigrations == SelectSeq(getMigrations, Pending)
       IN  IF pendingMigrations = <<>>
           THEN /\ store' = StartupReturn(store, calls[i])
                /\ calls' = RemoveAt(calls, i)
                /\ last' = ReturnedStartup(calls[i], "none")
           ELSE /\ store' = store
                /\ calls' = [calls EXCEPT ![i].pc = "up",
                                          ![i].pendingMigrations = pendingMigrations]
                /\ last' = last
    /\ UNCHANGED <<games, spotted_states, nextId, del, activeGame, currentGame, allGames>>

\* await this.dbService.executeQuery(migration.up)
StartupUp(i) ==
    /\ calls[i].pc = "up"
    /\ store' = [store EXCEPT !.upRuns[Head(calls[i].pendingMigrations)] = @ + 1]
    /\ calls' = [calls EXCEPT ![i].pc = "markMigrationExecuted"]
    /\ UNCHANGED <<games, spotted_states, nextId, last, del, activeGame, currentGame, allGames>>

\* await this.markMigrationExecuted(migration): the INSERT, refused by the
\* primary key when the version has a row; then the next pending migration,
\* or the return
StartupMark(i) ==
    /\ calls[i].pc = "markMigrationExecuted"
    /\ LET version == Head(calls[i].pendingMigrations)
           rest == Tail(calls[i].pendingMigrations)
           marked == [store EXCEPT !.migrations = Append(@, version)]
       IN  IF PrimaryKeyViolation(store.migrations, version)
           THEN /\ store' = store
                /\ calls' = RemoveAt(calls, i)
                /\ last' = ReturnedStartup(calls[i], ErrPrimaryKey)
           ELSE IF rest = <<>>
           THEN /\ store' = StartupReturn(marked, calls[i])
                /\ calls' = RemoveAt(calls, i)
                /\ last' = ReturnedStartup(calls[i], "none")
           ELSE /\ store' = marked
                /\ calls' = [calls EXCEPT ![i].pc = "up", ![i].pendingMigrations = rest]
                /\ last' = last
    /\ UNCHANGED <<games, spotted_states, nextId, del, activeGame, currentGame, allGames>>

NextStartup ==
    \/ StartupInitialize
    \/ StartupRunMigrations
    \/ \E i \in 1..Len(calls) : StartupOpen(i)
    \/ \E i \in 1..Len(calls) : StartupCreateTables(i)
    \/ \E i \in 1..Len(calls) : StartupMigrationsTable(i)
    \/ \E i \in 1..Len(calls) : StartupGetVersion(i)
    \/ \E i \in 1..Len(calls) : StartupUp(i)
    \/ \E i \in 1..Len(calls) : StartupMark(i)

SpecStartup == InitStore /\ [][NextStartup]_vars

----------------------------------------------------------------------------
(* GameManagerProvider.toggleStateSpotted with the local state: the        *)
(* service call, the TOGGLE_STATE dispatch, the getGameState of            *)
(* refreshGameState and the REFRESH_GAME_STATE dispatch are the points     *)
(* between which another call can run.  Calls in progress are on           *)
(* different states.                                                       *)

\* the states the user toggles: the last reference states, spotted or not
ManagerCodes == (total - TopCodes)..total

\* the provider is mounted over a store with one active game, and
\* loadActiveGame has set activeGame
InitManager ==
    /\ games = PreloadedGames /\ nextId = 2
    /\ spotted_states \in {<<>>, PreloadedSpotted}
    /\ last = Returned("none", 0, "none", "void")
    /\ del = Idle
    /\ store = StartedStore
    /\ calls = <<>>
    /\ activeGame = getActiveGameState(games, spotted_states)
    /\ currentGame = NULL /\ allGames = <<>>

ReturnedManager(call, err, ret) ==
    [Returned("GameManager.toggleStateSpotted", call.gameId, err, ret)
        EXCEPT !.value = [stateCode |-> call.stateCode]]

\* toggleStateSpotted(stateCode) is called: the check of state.activeGame
ManagerToggleStart(stateCode) ==
    /\ Len(calls) < MaxCalls
    /\ \A i \in 1..Len(calls) : calls[i].stateCode # stateCode
    /\ IF activeGame = NULL
       THEN /\ last' = Returned("GameManager.toggleStateSpotted", 0, ErrNoActiveGame, "void")
            /\ calls' = calls
       ELSE /\ calls' = Append(calls, [gameId |-> activeGame.game.id,
                                       stateCode |-> stateCode,
                                       pc |-> "toggleStateSpotted",
                                       ret |-> FALSE, refreshedState |-> NULL])
            /\ last' = last
    /\ UNCHANGED <<games, spotted_states, nextId, del, store, activeGame, currentGame, allGames>>

\* the statements of gameService.toggleStateSpotted run in the store; an
\* error goes to the catch (SET_ERROR) and is rethrown
ManagerToggleService(i) ==
    /\ calls[i].pc = "toggleStateSpotted"
    /\ LET r == GameService_toggleStateSpotted(games, spotted_states,
                                               calls[i].gameId, calls[i].stateCode)
       IN  /\ games' = r.games
           /\ spotted_states' = r.spotted
           /\ IF r.err # "none"
              THEN /\ calls' = RemoveAt(calls, i)
                   /\ last' = ReturnedManager(calls[i], r.err, "void")
              ELSE /\ calls' = [calls EXCEPT ![i].pc = "dispatch", ![i].ret = r.ret]
                   /\ last' = last
    /\ UNCHANGED <<nextId, del, store, activeGame, currentGame, allGames>>

\* the await of the service call resumes: dispatch TOGGLE_STATE, then
\* refreshGameState() up to its await of getGameState
ManagerToggleDispatch(i) ==
    /\ calls[i].pc = "dispatch"
    /\ activeGame' = ReduceToggleState(activeGame, calls[i].stateCode, calls[i].ret)
    /\ calls' = [calls EXCEPT ![i].pc = "getGameState"]
    /\ UNCHANGED <<games, spotted_states, nextId, last, del, store, currentGame, allGames>>

\* the statements of gameService.getGameState run in the store; an error is
\* kept by refreshGameState (SET_ERROR) and toggleStateSpotted returns
ManagerRefreshRead(i) ==
    /\ calls[i].pc = "getGameState"
    /\ LET r == getGameState(games, spotted_states, calls[i].gameId) IN
       IF r.err # "none"
       THEN /\ calls' = RemoveAt(calls, i)
            /\ last' = ReturnedManager(calls[i], "none", BoolStr(calls[i].ret))
       ELSE /\ calls' = [calls EXCEPT ![i].pc = "refresh",
                                      ![i].refreshedState = GameStateOf(r)]
            /\ last' = last
    /\ UNCHANGED <<games, spotted_states, nextId, del, store, activeGame, currentGame, allGames>>

\* the await of getGameState resumes: dispatch REFRESH_GAME_STATE, and
\* toggleStateSpotted returns isNowSpotted
ManagerRefreshDispatch(i) ==
    /\ calls[i].pc = "refresh"
    /\ activeGame' = ReduceRefreshGameState(activeGame, calls[i].refreshedState)
    /\ calls' = RemoveAt(calls, i)
    /\ last' = ReturnedManager(calls[i], "none", BoolStr(calls[i].ret))
    /\ UNCHANGED <<games, spotted_states, nextId, del, store, currentGame, allGames>>

NextManager ==
    \/ \E stateCode \in ManagerCodes : ManagerToggleStart(stateCode)
    \/ \E i \in 1..Len(calls) : ManagerToggleService(i)
    \/ \E i \in 1..Len(calls) : ManagerToggleDispatch(i)
    \/ \E i \in 1..Len(calls) : ManagerRefreshRead(i)
    \/ \E i \in 1..Len(calls) : ManagerRefreshDispatch(i)

SpecManager == InitManager /\ [][NextManager]_vars

----------------------------------------------------------------------------
(* GameProvider: createGame, resumeGame, completeGame and deleteGame, each *)
(* run to its end before the next one starts, no statement failing         *)

ProviderNames == {"Trip A", "Trip B"}

\* the store found by initializeDatabase: no game, or one active game; then
\* loadAllGames and loadActiveGame have run
InitProvider ==
    /\ \/ games = {} /\ nextId = 1
       \/ /\ games = LegacyDb_createGame({}, 1, [name |-> "Trip A", createdAt |-> 1,
                                                 completedAt |-> 0,
                                                 isActive |-> TRUE]).games
          /\ nextId = 2
    /\ spotted_states = <<>>
    /\ last = Returned("none", 0, "none", "void")
    /\ del = Idle
    /\ store = StartedStore
    /\ calls = <<>>
    /\ activeGame = NULL
    /\ currentGame = LegacyDb_getActiveGame(games)
    /\ allGames = LegacyDb_getAllGames(games)

ProviderCreateGame(name) ==
    /\ nextId <= MaxGames
    /\ LET r == GameProvider_createGame(games, currentGame, allGames, nextId, name) IN
       /\ games' = r.games
       /\ currentGame' = r.currentGame
       /\ allGames' = r.allGames
       /\ last' = Returned("GameProvider.createGame", r.currentGame.id, r.err, "void")
    /\ nextId' = nextId + 1
    /\ UNCHANGED <<spotted_states, del, store, calls, activeGame>>

ProviderCompleteGame ==
    /\ LET r == GameProvider_completeGame(games, currentGame, allGames, nextId) IN
       /\ games' = r.games
       /\ currentGame' = r.currentGame
       /\ allGames' = r.allGames
       /\ last' = Returned("GameProvider.completeGame", 0, r.err, "void")
    /\ UNCHANGED <<spotted_states, nextId, del, store, calls, activeGame>>

ProviderResumeGame(gameId) ==
    /\ LET r == GameProvider_resumeGame(games, currentGame, allGames, gameId) IN
       /\ games' = r.games
       /\ currentGame' = r.currentGame
       /\ allGames' = r.allGames
       /\ last' = Returned("GameProvider.resumeGame", gameId, r.err, "void")
    /\ UNCHANGED <<spotted_states, nextId, del, store, calls, activeGame>>

ProviderDeleteGame(gameId) ==
    /\ LET r == GameProvider_deleteGame(games, currentGame, allGames, gameId) IN
       /\ games' = r.games
       /\ currentGame' = r.currentGame
       /\ allGames' = r.allGames
       /\ last' = Returned("GameProvider.deleteGame", gameId, r.err, "void")
    /\ UNCHANGED <<spotted_states, nextId, del, store, calls, activeGame>>

NextProvider ==
    \/ \E name \in ProviderNames : ProviderCreateGame(name)
    \/ ProviderCompleteGame
    \/ \E gameId \in GameIds : ProviderResumeGame(gameId)
    \/ \E gameId \in GameIds : ProviderDeleteGame(gameId)

SpecProvider == InitProvider /\ [][NextProvider]_vars

----------------------------------------------------------------------------
(* Properties *)

AllCodes == US_STATES \cup InvalidCodes

\* the rows of spotted_states that belong to a game, counted without the repository
RowsOf(ss, gameId) == {i \in 1..Len(ss) : ss[i].gameId = gameId}

GameExists(gs, gameId) == \E r \in gs : r.id = gameId

ActiveRows(gs) == {r \in gs : r.isComplete = 0}

\* valid trip-creation input, in the words of the data model: name, start
\* location and destination non-empty after trimming, a start date that is
\* a calendar date, and an end date absent or strictly after the start date
IsValidGameData(d) ==
    /\ \E i \in 1..Len(d.name) : d.name[i] # Blank
    /\ \E i \in 1..Len(d.startLocation) : d.startLocation[i] # Blank
    /\ \E i \in 1..Len(d.destination) : d.destination[i] # Blank
    /\ d.startDate.kind = "date"
    /\ \/ d.endDate.kind \in {"undefined", "empty"}
       \/ d.endDate.kind = "date" /\ d.endDate.day > d.startDate.day

\* C1: after any sequence of GameService calls (createGame,
\* toggleStateSpotted, completeGame, deleteGame), each run to its end, at
\* most one game with isComplete = 0 exists.
C1_AtMostOneActiveGame == Cardinality(ActiveRows(games)) <= 1

\* a second game was created after the first one was completed
C1_Witness ==
    /\ last.op = "createGame" /\ last.err = "none"
    /\ Cardinality(games) = 2
    /\ Cardinality(ActiveRows(games)) = 1

\* C2: for every valid input, createGame succeeds iff no active game exists
\* at the call; with an active game it fails with the active-game conflict
\* error, adds no game and leaves the games table as it was.
C2_CreateIffNoActive ==
    \A d \in {x \in AllGameData : IsValidGameData(x)} :
        LET r == GameService_createGame(games, nextId, nextId, d) IN
        IF ActiveRows(games) = {}
        THEN /\ r.err = "none"
             /\ Cardinality(r.games) = Cardinality(games) + 1
             /\ games \subseteq r.games
             /\ \A n \in r.games \ games : n.id = nextId /\ n.isComplete = 0
        ELSE /\ r.err = ErrActiveGame
             /\ r.games = games

\* createGame was refused because a game is active, and that game is still there
C2_Witness ==
    /\ last.op = "createGame" /\ last.err = ErrActiveGame
    /\ Cardinality(ActiveRows(games)) = 1

\* C3: a second addSpottedState of the same (gameId, stateCode) raises the
\* "already been spotted" error and leaves spotted_states unchanged; in every reachable state there is at
\* most one row per (gameId, stateCode).
C3_DuplicateAddRejected ==
    /\ \A i, j \in 1..Len(spotted_states) :
           i # j => spotted_states[i] # spotted_states[j]
    /\ \A gameId \in GameIds, stateCode \in AllCodes :
           LET a1 == addSpottedState(spotted_states, gameId, stateCode)
               a2 == addSpottedState(a1.spotted, gameId, stateCode)
           IN  /\ a2.err = ErrAlreadySpotted
               /\ a2.spotted = a1.spotted
               /\ Cardinality({i \in RowsOf(a2.spotted, gameId) :
                                  a2.spotted[i].stateCode = stateCode}) = 1

\* an addSpottedState was refused as a duplicate
C3_Witness ==
    /\ last.op = "addSpottedState" /\ last.err = ErrAlreadySpotted
    /\ Len(spotted_states) > 0

\* C4: for every pair not yet spotted, two toggles in succession return
\* true and then false; after the second one isStateSpotted is false, the
\* list of the game does not hold the state code and the table is what it
\* was before the first.
C4_ToggleTwice ==
    \A gameId \in GameIds, stateCode \in AllCodes :
        ~isStateSpotted(spotted_states, gameId, stateCode) =>
            LET t1 == SpottedStateRepository_toggleStateSpotted(spotted_states, gameId, stateCode)
                t2 == SpottedStateRepository_toggleStateSpotted(t1.spotted, gameId, stateCode)
                l1 == getSpottedStatesForGame(t1.spotted, gameId)
                l2 == getSpottedStatesForGame(t2.spotted, gameId)
            IN  /\ t1.err = "none" /\ t1.ret = TRUE
                /\ isStateSpotted(t1.spotted, gameId, stateCode)
                /\ \E i \in 1..Len(l1) : l1[i].stateCode = stateCode
                /\ t2.err = "none" /\ t2.ret = FALSE
                /\ ~isStateSpotted(t2.spotted, gameId, stateCode)
                /\ \A i \in 1..Len(l2) : l2[i].stateCode # stateCode
                /\ t2.spotted = spotted_states

\* a toggle returned false on a game that keeps other spotted states
C4_Witness ==
    /\ last.op = "SpottedStateRepository.toggleStateSpotted" /\ last.ret = "false"
    /\ RowsOf(spotted_states, last.id) # {}

\* C5: a game with 50 spotted states is complete and its progress is 50 of
\* 50, 100 percent; whenever toggleStateSpotted returns leaving 50 spotted
\* states, the game is complete on return.
C5_AutoComplete ==
    /\ \A r \in games :
           Cardinality(RowsOf(spotted_states, r.id)) = 50 =>
               /\ r.isComplete = 1
               /\ getGameProgress(spotted_states, r.id).found = 50
               /\ getGameProgress(spotted_states, r.id).percentage = 100
    /\ \A gameId \in GameIds, stateCode \in AllCodes :
           LET t == GameService_toggleStateSpotted(games, spotted_states, gameId, stateCode)
           IN  (t.err = "none" /\ Cardinality(RowsOf(t.spotted, gameId)) = 50) =>
                   \A r \in t.games : r.id = gameId => r.isComplete = 1

\* the toggle that spotted the 50th state returned, and the game is complete
C5_Witness ==
    /\ last.op = "toggleStateSpotted" /\ last.err = "none" /\ last.ret = "true"
    /\ Cardinality(RowsOf(spotted_states, last.id)) = 50
    /\ \E r \in games : r.id = last.id /\ r.isComplete = 1

\* what C6 says of one step: a complete game that is still there afterwards
\* is still complete and has the spotted states it had
C6_Step ==
    \A r \in games :
        (r.isComplete = 1 /\ GameExists(games', r.id)) =>
            /\ \A q \in games' : q.id = r.id => q.isComplete = 1
            /\ getSpottedStatesForGame(spotted_states', r.id)
                   = getSpottedStatesForGame(spotted_states, r.id)

\* what C6 says of one state: toggleStateSpotted on a complete game fails
\* with the completed-game error for every state code of the reference set
\* and changes nothing
C6_Refused ==
    \A r \in games, stateCode \in US_STATES :
        r.isComplete = 1 =>
            LET t == GameService_toggleStateSpotted(games, spotted_states, r.id, stateCode)
            IN  /\ t.err = ErrCompletedGame
                /\ t.games = games
                /\ t.spotted = spotted_states

\* C6: once a game is complete, every toggleStateSpotted on it fails with
\* the completed-game conflict and neither adds nor removes a spotted state:
\* its spotted states stay as they were for as long as the game exists.
C6_NoToggleAfterCompletion == [](C6_Refused) /\ [][C6_Step]_vars

\* a toggle was refused on a complete game that has spotted states
C6_Witness ==
    /\ last.op = "toggleStateSpotted" /\ last.err = ErrCompletedGame
    /\ RowsOf(spotted_states, last.id) # {}

\* C7: deleteGame on an existing game leaves no spotted_states row and no
\* games row of that id, and getGameState of it then fails with "Game not
\* found"; deleteGame on an id that does not exist fails with "Game not
\* found" and changes nothing.
C7_DeleteRemovesAll ==
    /\ \A gameId \in GameIds :
           LET d == GameService_deleteGame(games, spotted_states, gameId) IN
           IF GameExists(games, gameId)
           THEN /\ d.err = "none"
                /\ RowsOf(d.spotted, gameId) = {}
                /\ ~GameExists(d.games, gameId)
                /\ getGameState(d.games, d.spotted, gameId).err = ErrGameNotFound
                /\ \A r \in games : r.id # gameId => r \in d.games
                /\ \A other \in GameIds \ {gameId} :
                       getSpottedStatesForGame(d.spotted, other)
                           = getSpottedStatesForGame(spotted_states, other)
           ELSE /\ d.err = ErrGameNotFound
                /\ d.games = games
                /\ d.spotted = spotted_states
    /\ (last.op = "deleteGame" /\ last.err = "none") =>
           /\ RowsOf(spotted_states, last.id) = {}
           /\ ~GameExists(games, last.id)

\* a game was deleted while another game keeps its spotted states
C7_Witness ==
    /\ last.op = "deleteGame" /\ last.err = "none"
    /\ ~GameExists(games, last.id)
    /\ Len(spotted_states) > 0

\* C8: in every state deleteGame passes through, also when a step fails or
\* the call is interrupted, every spotted_states row names a game that
\* exists: the game row goes only after all its spotted states.
C8_NoOrphanedSpottedStates ==
    \A i \in 1..Len(spotted_states) : GameExists(games, spotted_states[i].gameId)

\* a deleteGame failed after it had removed some spotted states of the game
C8_Witness ==
    /\ last.op = "deleteGame" /\ last.err = ErrQueryFailed
    /\ GameExists(games, 1)
    /\ Cardinality(RowsOf(spotted_states, 1)) \in 1..(total - TopCodes - 1)

\* C9: GameRepository.createGame followed by getGameById of the returned id
\* yields a game equal in all fields to the one createGame returned, also
\* when no endDate was supplied; getGameById of an id never created is null.
C9_CreateGetRoundTrip ==
    /\ last.op = "GameRepository.createGame" => getGameById(games, last.id) = last.value
    /\ \A gameId \in GameIds : gameId >= nextId => getGameById(games, gameId) = NULL

\* the percentage is found * 100 / total rounded to the nearest integer, halves up
IsRounded(p, num, den) == 2 * den * p <= 2 * num + den /\ 2 * num + den < 2 * den * (p + 1)

\* C10: getGameProgress returns found = the number of rows stored for the
\* game, total = 50 and percentage = round(found / 50 * 100) (found 2 gives
\* 4, found 1 gives 2); toggling a spotted state off lowers found by one.
C10_ProgressCounts ==
    /\ \A gameId \in GameIds :
           LET p == getGameProgress(spotted_states, gameId) IN
           /\ p.found = Cardinality(RowsOf(spotted_states, gameId))
           /\ p.total = 50
           /\ IsRounded(p.percentage, p.found * 100, 50)
           /\ (p.found = 1 => p.percentage = 2) /\ (p.found = 2 => p.percentage = 4)
           /\ \A stateCode \in AllCodes :
                  isStateSpotted(spotted_states, gameId, stateCode) =>
                      LET t == SpottedStateRepository_toggleStateSpotted(
                                   spotted_states, gameId, stateCode)
                      IN  getGameProgress(t.spotted, gameId).found = p.found - 1
    /\ \A n \in 0..50 : IsRounded(MathRound(n * 100, total), n * 100, 50)

\* a state was toggled off and the game is left with one spotted state
C10_Witness ==
    /\ last.op = "SpottedStateRepository.toggleStateSpotted" /\ last.ret = "false"
    /\ getGameProgress(spotted_states, last.id).found = 1
    /\ getGameProgress(spotted_states, last.id).percentage = 2

----------------------------------------------------------------------------
(* The database layer *)

IsPrefix(s, t) == Len(s) <= Len(t) /\ \A i \in 1..Len(s) : s[i] = t[i]

\* every migration of getMigrations has its ledger row
LedgerComplete(st) == st.migrations = getMigrations

\* C11: a runMigrations that follows a runMigrations finds no pending
\* migration, runs no up statement, writes no ledger row and leaves the
\* store as the first one left it; the ledger never holds a version twice,
\* and as long as no statement has failed each up statement has run exactly
\* once for a version in the ledger and never for another.
C11_MigrationIdempotent ==
    /\ \A i, j \in 1..Len(store.migrations) :
           i # j => store.migrations[i] # store.migrations[j]
    /\ store.db # NULL =>
           LET r1 == runMigrations(store, NoFault)
               r2 == runMigrations(r1.store, NoFault)
           IN  /\ r1.err = "none" /\ r2.err = "none"
               /\ r2.pending = 0 /\ r2.ups = <<>> /\ r2.marks = <<>>
               /\ r2.store = r1.store
               /\ LedgerComplete(r2.store)
    /\ store.faults = 0 =>
           \A v \in 1..MaxMigrations :
               store.upRuns[v] = IF PrimaryKeyViolation(store.migrations, v) THEN 1 ELSE 0
    /\ (last.op = "runMigrations" /\ last.err = "none" /\ last.value.pending = 0) =>
           last.value.ups = <<>> /\ last.value.marks = <<>>

\* a runMigrations over a fully migrated store returned having found nothing pending
C11_Witness ==
    /\ last.op = "runMigrations" /\ last.err = "none"
    /\ last.value.pending = 0
    /\ LedgerComplete(store) /\ store.faults = 0

\* C12: when the up statement or the ledger INSERT of migration k fails,
\* runMigrations throws, the ledger holds the rows it held before and those
\* of the migrations before k, none for k or a later one, no later up
\* statement has run, and the next runMigrations starts with k.
C12_FailedMigrationNotMarked ==
    /\ store.db # NULL =>
           \A fault \in Faults :
               LET r == runMigrations(store, fault)
                   k == fault.version
                   retry == runMigrations(r.store, NoFault)
               IN  (r.err = ErrQueryFailed /\ k > 0) =>
                       /\ IsPrefix(store.migrations, r.store.migrations)
                       /\ r.store.migrations = [i \in 1..(k - 1) |-> i]
                       /\ \A i \in 1..Len(r.ups) : r.ups[i] <= k
                       /\ \A v \in (k + 1)..MaxMigrations :
                              r.store.upRuns[v] = store.upRuns[v]
                       /\ retry.err = "none"
                       /\ retry.pending = MaxMigrations - k + 1
                       /\ Head(retry.ups) = k /\ Head(retry.marks) = k
    /\ (last.op = "runMigrations" /\ last.err = ErrQueryFailed
          /\ last.value.fault.version > 0) =>
           /\ ~PrimaryKeyViolation(store.migrations, last.value.fault.version)
           /\ Len(store.migrations) = last.value.fault.version - 1

\* the second migration failed after the first one had been applied
C12_Witness ==
    /\ last.op = "runMigrations" /\ last.err = ErrQueryFailed
    /\ last.value.fault.version = 2
    /\ store.migrations = <<1>>

\* C13: executeQuery throws "Database not initialized", and hands no
\* statement to the connection, whenever no initialize has succeeded since
\* construction or since the last close.
C13_ExecuteFailsUnlessOpen ==
    (last.op = "executeQuery" /\ ~store.opened) =>
        last.err = ErrDbNotInitialized /\ last.ret # "ran"

\* C14: isReady() is true exactly when an initialize has succeeded and no
\* close has since, which are exactly the states in which executeQuery hands
\* a statement to the connection; initialize on a ready store changes nothing.
C14_IsReadyIffOpen ==
    /\ DatabaseService_isReady(store) <=> store.opened
    /\ DatabaseService_isReady(store) <=> executeQuery(store).ran
    /\ DatabaseService_isReady(store) =>
           \A outcome \in InitializeOutcomes :
               DatabaseService_initialize(store, outcome).store = store

\* C17: a DatabaseManager.initialize that throws leaves the manager not
\* initialized and not ready, with getGameRepository and
\* getSpottedStateRepository throwing; the manager is initialized, and
\* hands out a repository, only when every migration has its ledger row.
C17_FailedStartupNotReady ==
    /\ \A outcome \in InitializeOutcomes, fault \in Faults :
           LET i == DatabaseManager_initialize(store, outcome, fault) IN
           i.err # "none" =>
               /\ ~i.store.managerInitialized
               /\ ~DatabaseManager_isReady(i.store)
               /\ getRepository(i.store).err = ErrManagerNotInitialized
    /\ store.managerInitialized => LedgerComplete(store)
    /\ getRepository(store).err = "none" => LedgerComplete(store)
    /\ (last.op = "getGameRepository" /\ last.ret = "repository") => LedgerComplete(store)

\* DatabaseManager.initialize opened the store and then failed in a migration
C17_Witness ==
    /\ last.op = "DatabaseManager.initialize" /\ last.err = ErrQueryFailed
    /\ store.db # NULL /\ store.isInitialized
    /\ ~store.managerInitialized /\ ~LedgerComplete(store)

----------------------------------------------------------------------------
(* GameCompletionService *)

LevelRank(level) == IF level = "gold" THEN 3 ELSE IF level = "silver" THEN 2
                    ELSE IF level = "bronze" THEN 1 ELSE 0

C16_CheckAndComplete ==
    /\ \A gameId \in GameIds :
           GameExists(games, gameId) =>
               LET game == getGameById(games, gameId)
                   progress == getGameProgress(spotted_states, gameId)
                   r1 == checkAndHandleCompletion(games, spotted_states, gameId)
                   r2 == checkAndHandleCompletion(r1.games, spotted_states, gameId)
               IN  IF progress.found = 50 /\ ~game.isComplete
                   THEN /\ r1.err = "none" /\ r1.ret # NULL
                        /\ r1.ret.gameId = gameId
                        /\ r1.ret.totalStates = 50
                        /\ r1.ret.spottedStates = US_STATES
                        /\ r1.ret.achievementLevel = "gold"
                        /\ getGameById(r1.games, gameId).isComplete
                        /\ r1.games = markGameComplete(games, gameId)
                        /\ r2.err = "none" /\ r2.ret = NULL /\ r2.games = r1.games
                   ELSE r1.err = "none" /\ r1.ret = NULL /\ r1.games = games
    /\ (last.op = "checkAndHandleCompletion" /\ last.ret = "event") =>
           /\ getGameById(games, last.id).isComplete
           /\ getGameProgress(spotted_states, last.id).found = 50

\* checkAndHandleCompletion completed a game and returned its event
C16_Witness ==
    /\ last.op = "checkAndHandleCompletion" /\ last.ret = "event"
    /\ last.value.achievementLevel = "gold"
    /\ getGameById(games, last.id).isComplete

----------------------------------------------------------------------------
(* GameService.toggleStateSpotted: the errors that come before the store *)

\* C20: toggleStateSpotted throws "Invalid state code" for a state code
\* outside the 50 of US_STATES, whether or not the game exists or is
\* complete, and "Game not found" for a valid code and an id that names no
\* game; in both cases games and spotted_states are left as they were.
C20_ToggleNotFound ==
    \A gameId \in GameIds, stateCode \in AllCodes :
        LET r == GameService_toggleStateSpotted(games, spotted_states, gameId, stateCode) IN
        /\ stateCode \notin US_STATES =>
               /\ r.err = ErrInvalidStateCode
               /\ r.games = games /\ r.spotted = spotted_states
        /\ (stateCode \in US_STATES /\ ~GameExists(games, gameId)) =>
               /\ r.err = ErrGameNotFound
               /\ r.games = games /\ r.spotted = spotted_states

\* an invalid state code was reported for a game that does not exist
C20_Witness ==
    /\ last.op = "toggleStateSpotted" /\ last.err = ErrInvalidStateCode
    /\ ~GameExists(games, last.id)

----------------------------------------------------------------------------
(* Overlapping toggles *)

\* C18: the repository's toggle is atomic: when a call comes to add or
\* remove, the row is present or absent as its isStateSpotted query said,
\* and no toggle ends in the "already been spotted" error of a duplicate.
C18_ToggleAtomic ==
    /\ \A i \in 1..Len(calls) :
           calls[i].pc = "addOrRemove" =>
               calls[i].seen = isStateSpotted(spotted_states, calls[i].gameId,
                                              calls[i].stateCode)
    /\ last.op = "GameManager.toggleStateSpotted" => last.err # ErrAlreadySpotted

\* C19: no two toggleStateSpotted calls for the same state of the same
\* game are in progress at the same time.
C19_NoConcurrentToggles ==
    \A i, j \in 1..Len(calls) :
        i # j => ~(calls[i].gameId = calls[j].gameId
                     /\ calls[i].stateCode = calls[j].stateCode)

----------------------------------------------------------------------------
(* GameService: validation, game state *)

ValidationErrors ==
    {"Game name is required", "Start date is required", "Start location is required",
     "Destination is required", "Invalid start date format", "Invalid end date format",
     "End date must be after start date"}

\* C21: createGame with data that fails a validation check throws one of
\* the validation errors and leaves games as it was, whether or not an
\* active game exists (never the active-game error); validateGameData says
\* isValid for exactly the data that pass createGame's validation, and the
\* error createGame throws is one of those it lists.
C21_ValidationFirst ==
    \A d \in AllGameData :
        LET r == GameService_createGame(games, nextId, nextId, d)
            v == validateGameData(d)
        IN  /\ ~IsValidGameData(d) =>
                   /\ r.err \in ValidationErrors
                   /\ r.games = games
                   /\ \E i \in 1..Len(v.errors) : v.errors[i] = r.err
            /\ v.isValid <=> IsValidGameData(d)
            /\ v.isValid <=> CreateGameValidation(d) = "none"
            /\ v.isValid <=> r.err \notin ValidationErrors

\* createGame threw a validation error while a game was active
C21_Witness ==
    /\ last.op = "createGame" /\ last.err = "Game name is required"
    /\ ActiveRows(games) # {}

----------------------------------------------------------------------------
(* Milestones and statistics *)

\* some completed game has at least n states found
CompletedWithAtLeast(n) ==
    \E r \in games : r.isComplete = 1 /\ Cardinality(RowsOf(spotted_states, r.id)) >= n

\* C23: checkMilestones reports the bronze milestone achieved exactly when
\* some completed game has at least 25 states found, the silver one exactly
\* when some has at least 40 and the gold one exactly when some has 50;
\* every milestone's progress is within 0..100 and is 100 exactly when the
\* milestone is achieved.
C23_TierMilestones ==
    last.op = "checkMilestones" =>
        /\ last.value.bronze.achieved <=> CompletedWithAtLeast(25)
        /\ last.value.silver.achieved <=> CompletedWithAtLeast(40)
        /\ last.value.gold.achieved <=> CompletedWithAtLeast(50)
        /\ \A m \in DOMAIN last.value :
               /\ last.value[m].progress \in 0..100
               /\ last.value[m].progress = 100 <=> last.value[m].achieved

\* rows of equal count come in ascending order of state code
TiesByCode(list) ==
    \A i, j \in 1..Len(list) :
        (i < j /\ list[i].count = list[j].count) => list[i].stateCode < list[j].stateCode

\* C24: getGameStatistics is deterministic: mostSpottedStates holds at most
\* 10 state codes in descending order of count, rarestStates at most 10 in
\* ascending order, rows of equal count in ascending order of state code,
\* so that the stored rows determine both lists.
C24_StatisticsDeterministic ==
    /\ last.op = "getGameStatistics" =>
           /\ Len(last.value.mostSpottedStates) <= 10
           /\ Len(last.value.rarestStates) <= 10
           /\ \A i, j \in 1..Len(last.value.mostSpottedStates) :
                  i < j => last.value.mostSpottedStates[i].count
                              >= last.value.mostSpottedStates[j].count
           /\ \A i, j \in 1..Len(last.value.rarestStates) :
                  i < j => last.value.rarestStates[i].count
                              <= last.value.rarestStates[j].count
           /\ TiesByCode(last.value.mostSpottedStates)
           /\ TiesByCode(last.value.rarestStates)
    /\ Cardinality(MostSpottedResults(spotted_states)) = 1
    /\ Cardinality(RarestResults(spotted_states)) = 1

\* C25: two createGame calls with valid data that overlap (both make the
\* active-game check before either has inserted its game) cannot both
\* succeed: once the calls have returned, at most one game was created by
\* them and at most one game with isComplete false exists.
C25_OneActiveGame ==
    calls = <<>> => Cardinality(ActiveRows(games)) <= 1

\* C26: a toggleStateSpotted call that overlaps a deleteGame call for the
\* same game leaves no spotted state whose game no longer exists: once both
\* calls have finished, the gameId of every spotted_states row is the id of
\* a row of games.
C26_NoOrphanAfterDelete ==
    (calls = <<>> /\ del = Idle) =>
        \A i \in 1..Len(spotted_states) : GameExists(games, spotted_states[i].gameId)

\* C27: after any sequence of GameService calls run one after the other, no
\* game holds 50 spotted states with isComplete false; so
\* checkAndHandleCompletion of any existing game returns null, without an
\* error and without a write: it yields an event only for a game that got
\* its 50 states on another path than a toggleStateSpotted that returned.
C27_NoPendingCompletion ==
    \A gameId \in GameIds :
        GameExists(games, gameId) =>
            LET game == getGameById(games, gameId)
                progress == getGameProgress(spotted_states, gameId)
                r == checkAndHandleCompletion(games, spotted_states, gameId)
            IN  /\ progress.found = progress.total => game.isComplete
                /\ r.err = "none" /\ r.ret = NULL /\ r.games = games

\* a toggleStateSpotted has just added the 50th state of a game, and
\* checkAndHandleCompletion of that game finds nothing to do
C27_Witness ==
    /\ last.op = "toggleStateSpotted" /\ last.err = "none" /\ last.ret = "true"
    /\ GameExists(games, last.id)
    /\ getGameProgress(spotted_states, last.id).found = 50
    /\ getGameById(games, last.id).isComplete
    /\ checkAndHandleCompletion(games, spotted_states, last.id).ret = NULL

\* C28: when DatabaseManager.initialize or runMigrations calls overlap, the
\* up statement of each migration runs at most once in total, no call fails
\* on the primary key of migrations because another call has recorded the
\* version, and once the calls have returned with the manager initialized
\* the ledger holds exactly one row per migration version.
C28_MigrationsOnce ==
    /\ \A v \in 1..MaxMigrations : store.upRuns[v] <= 1
    /\ last.err # ErrPrimaryKey
    /\ (calls = <<>> /\ store.managerInitialized) =>
           \A v \in 1..MaxMigrations :
               Cardinality({i \in 1..Len(store.migrations) : store.migrations[i] = v}) = 1

C30_CurrentGameIsActiveRow ==
    /\ Cardinality({r \in games : r.is_active = 1}) <= 1
    /\ (currentGame # NULL /\ currentGame.isActive) =>
           \E r \in games : r.id = currentGame.id /\ r.is_active = 1

====
